---- MODULE Spec2Model ----
(***************************************************************************)
(* A model of the NoSQL key-value store repository:                        *)
(*   - KeyValueStore (src/src/kv_store.py): in-memory map, write-ahead     *)
(*     log wal.log, snapshot data.json, recovery on construction;          *)
(*   - ReplicationNode (src/replication.py) and the vote/heartbeat         *)
(*     handlers of src/src/replicated_server.py: leader mode;              *)
(*   - VectorClock and MasterlessNode (src/masterless_replication.py):     *)
(*     leaderless mode.                                                    *)
(* Each part has its own specification over its own variables.             *)
(***************************************************************************)
EXTENDS Integers, Sequences, FiniteSets, TLC

(***************************************************************************)
(* Bounds of the store model.                                              *)
(***************************************************************************)
MaxBulk == 2
MaxWal == 2
MaxOps == 2

Keys == {1, 2}
Values == {1}
NoValue == 0

VARIABLES
    data,        \* KeyValueStore._data: the in-memory map (NoValue = key absent)
    data_file,   \* data.json: [st: "absent" | "torn" | "ok", map, seq]
    wal_file,    \* wal.log: [lines: sequence of lines, open: last line has no newline yet]
    debug,       \* KeyValueStore.debug
    pc,          \* position of the thread holding KeyValueStore._lock ("down": process killed)
    cur,         \* the operation in progress: [kind, items, sf, idx, durable, sound]
    ret,         \* what the last completed operation returned: [kind, ok, n, key]
    opSeq,       \* history: number of operations with a WAL record begun since the process started
    acked,       \* history: the acknowledged operations applied, in order, to the empty map
    dirty,       \* history: keys whose last operation was in flight at a kill, never acknowledged
    recovered,   \* history: TRUE from a restart until the next operation begins
    deleted,     \* history: keys whose last acknowledged operation is a delete
    inflight     \* history: the call the last kill interrupted: [kind, n, written, map, sound]

storeVars == <<data, data_file, wal_file, debug, pc, cur, ret, opSeq, acked, dirty, recovered,
               deleted, inflight>>

VARIABLES
    size,          \* number of nodes of the cluster: 1 + len(peers)
    up,            \* the node's process is running
    listening,     \* the node's HTTP server accepts requests (after __init__)
    term,          \* ReplicationNode.term
    voted_for,     \* ReplicationNode.voted_for (None = 0)
    is_primary,    \* ReplicationNode.is_primary
    primary_node,  \* ReplicationNode.primary_node, as the node at that endpoint (None = 0)
    epc,           \* position of the node's start_election: "idle" | "asking"
    eidx,          \* start_election: number of peers asked so far
    votes,         \* start_election: the local variable votes
    hbidx,         \* _replication_loop: peers served in the round in progress, -1 outside a round
    votedIn,       \* history: the candidates the node has voted for, by term
    elections,     \* history: calls of start_election outside __init__, since the initial state
    kills          \* history: kills

leaderVars == <<size, up, listening, term, voted_for, is_primary, primary_node,
                epc, eidx, votes, hbidx, votedIn, elections, kills>>

VARIABLES
    hashOf,        \* hash(key) % len(all_nodes) in the node's process, -1 until first computed
    kv,            \* the node's KeyValueStore, as its map (NoValue = key absent)
    vector_clock,  \* MasterlessNode.vector_clock.clock
    value_clocks,  \* MasterlessNode.value_clocks (EmptyClock = no entry for the key)
    clocks_file,   \* clocks.json: [st: "absent" | "ok", vector_clock, value_clocks]
    mpc,           \* what the node's request thread is doing: "idle" | "set" | "get"
    mop,           \* the client operation in progress at the node
    pending,       \* replicate_set requests whose sender timed out, still to be handled
    mret,          \* history: the outcome of the last client operation completed
    lastRep,       \* history: the last replicate_set handled
    sets,          \* history: client sets begun
    gets           \* history: client gets begun

mlVars == <<hashOf, kv, vector_clock, value_clocks, clocks_file, mpc, mop, pending,
            mret, lastRep, sets, gets>>

VARIABLES
    lock,          \* KeyValueStore._lock: the thread that holds it, 0 when free
    tpc,           \* position of each calling thread inside its call
    tcur,          \* the call each thread is in: [kind, items, idx, midx]
    tret,          \* what each thread's last call returned: [kind, ok, n, key]
    calls,         \* history: calls begun
    serial,        \* history: the calls begun so far, run one after the other on the empty map
    expect,        \* history: what each thread's last call returns in that sequential run
    lastWrite      \* history: per key, the value of the last returned write (NoValue: none, or a delete)

thrVars == <<lock, tpc, tcur, tret, calls, serial, expect, lastWrite>>

VARIABLES
    nstore,        \* the leader-mode node's KeyValueStore: [map, wal (records), snap]
    creq,          \* the client request whose handler found the node not primary, "none" otherwise
    resp,          \* history: the last answer to a client request
    requests       \* history: client requests received

cliVars == <<nstore, creq, resp, requests>>

VARIABLES
    wreq,          \* the client write that the primary's handler is in: [node, kind, items, idx]
    applied        \* history: per node, the operations handed to its KeyValueStore, in order

replVars == <<wreq, applied>>

VARIABLES
    cthis,         \* VectorClock.compare: self.clock of the call
    cother,        \* VectorClock.compare: other_clock of the call
    cresult,       \* what compare returned: [out: this against other, rev: other against this]
    rcall,         \* _get_replica_nodes: [self, size, hash, rf] of the call
    rresult        \* what _get_replica_nodes returned (<<>>: not called yet)

pureVars == <<cthis, cother, cresult, rcall, rresult>>

VARIABLES
    gossips        \* history: gossip messages handled

gosVars == <<gossips>>

VARIABLES
    running,       \* per node: ReplicationNode._running
    stopped,       \* per node: ReplicatedKVServer.stop() has run
    stops          \* history: calls of stop()

stopVars == <<running, stopped, stops>>

VARIABLES
    qset           \* a leaderless set in a cluster of any size: its counting

cntVars == <<qset>>

VARIABLES
    backlog        \* client writes sent to the leader: waiting for the server, or taken

conVars == <<backlog>>

VARIABLES
    views          \* per node: the replica list it computed for the key, or <<>>

viewVars == <<views>>

\* what the steps of one part leave alone
notStore == <<leaderVars, mlVars, thrVars, cliVars, replVars, pureVars, gosVars, stopVars, cntVars, conVars, viewVars>>
notLeader == <<storeVars, mlVars, thrVars, cliVars, replVars, pureVars, gosVars, stopVars, cntVars, conVars, viewVars>>
notMl == <<storeVars, leaderVars, thrVars, cliVars, replVars, pureVars, gosVars, stopVars, cntVars, conVars, viewVars>>
notThr == <<debug, pc, cur, ret, opSeq, acked, dirty, recovered, deleted, inflight,
            leaderVars, mlVars, cliVars, replVars, pureVars, gosVars, stopVars, cntVars, conVars, viewVars>>
notCli == <<storeVars, mlVars, thrVars, leaderVars, replVars, pureVars, gosVars, stopVars, cntVars, conVars, viewVars>>
notRepl == <<storeVars, mlVars, thrVars, leaderVars, creq, pureVars, gosVars, stopVars, cntVars, conVars, viewVars>>
notPure == <<storeVars, leaderVars, mlVars, thrVars, cliVars, replVars, gosVars, stopVars, cntVars, conVars, viewVars>>

EmptyMap == [k \in Keys |-> NoValue]

Maps == [Keys -> Values \cup {NoValue}]

Items == UNION {[1..n -> Keys \X Values] : n \in 0..MaxBulk}

\* durable (history): the items of the call whose WAL record is a line of its own;
\* sound (history): at the entry of checkpoint, the files recover the map in memory
NoOp == [kind |-> "none", items |-> <<>>, sf |-> FALSE, idx |-> 0, durable |-> {},
         sound |-> FALSE]

NoRet == [kind |-> "none", ok |-> FALSE, n |-> 0, key |-> 0]

\* written: the items whose write the files hold; map: the map in memory at the kill
NoInflight == [kind |-> "none", n |-> 0, written |-> {}, map |-> EmptyMap, sound |-> FALSE]

\* a line that json.loads rejects; seq (history) is the operation that wrote last to it
GarbageLine(seq) == [op |-> "garbage", key |-> 0, value |-> NoValue, seq |-> seq]

(***************************************************************************)
(* Recovery: _load_data then _replay_wal.                                  *)
(***************************************************************************)

\* _load_data: a missing file leaves {}, an unparseable file gives {}.
LoadData(df) == IF df.st = "ok" THEN df.map ELSE EmptyMap

\* a replay in which a line that does not parse empties what was replayed so far
ApplyLineResets(m, ln) ==
    IF ln.op = "set" THEN [m EXCEPT ![ln.key] = ln.value]
    ELSE IF ln.op = "delete" THEN [m EXCEPT ![ln.key] = NoValue]
    ELSE EmptyMap

\* the body of the replay loop for one line; an unparseable line is skipped.
ApplyLine(m, ln) ==
    IF ln.op = "set" THEN [m EXCEPT ![ln.key] = ln.value]
    ELSE IF ln.op = "delete" THEN [m EXCEPT ![ln.key] = NoValue]
    ELSE m

RECURSIVE ReplayWal(_, _)
ReplayWal(m, lines) ==
    IF lines = <<>> THEN m
    ELSE ReplayWal(ApplyLine(m, Head(lines)), Tail(lines))

Recover(df, wf) == ReplayWal(LoadData(df), wf.lines)

(***************************************************************************)
(* The write-ahead log file.  A line is a record or garbage.  open = TRUE  *)
(* says that the last line was left without its newline by a kill in the   *)
(* middle of an append: the next append continues that same line, and the  *)
(* joined line does not parse.                                             *)
(***************************************************************************)
EmptyWal == [lines |-> <<>>, open |-> FALSE]

WalRecord(kind, item, seq) ==
    IF kind = "delete"
    THEN [op |-> "delete", key |-> item[1], value |-> NoValue, seq |-> seq]
    ELSE [op |-> "set", key |-> item[1], value |-> item[2], seq |-> seq]

\* the file after the bytes of ln were written after its present content
WriteLine(wf, ln) ==
    IF wf.open
    THEN [wf EXCEPT !.lines[Len(wf.lines)] = GarbageLine(ln.seq)]
    ELSE [wf EXCEPT !.lines = Append(wf.lines, ln)]

\* _append_wal: open(..., "a"), write(json + "\n"), flush, fsync
AppendWal(wf, rec) == [WriteLine(wf, rec) EXCEPT !.open = FALSE]

\* what a kill in the middle of _append_wal can leave: nothing, a prefix of
\* the record, the record without its newline, or the whole line.
TornAppends(wf, rec) ==
    { wf,
      [WriteLine(wf, GarbageLine(rec.seq)) EXCEPT !.open = TRUE],
      [WriteLine(wf, rec) EXCEPT !.open = TRUE],
      AppendWal(wf, rec) }

(***************************************************************************)
(* Operations of KeyValueStore.  One thread at a time holds _lock for the  *)
(* whole operation, so one program counter follows the lock holder.        *)
(***************************************************************************)
ItemKeys(items) == {items[i][1] : i \in 1..Len(items)}

RECURSIVE ApplyItems(_, _, _)
ApplyItems(m, kind, items) ==
    IF items = <<>> THEN m
    ELSE ApplyItems(
           IF kind = "delete" THEN [m EXCEPT ![Head(items)[1]] = NoValue]
           ELSE [m EXCEPT ![Head(items)[1]] = Head(items)[2]],
           kind, Tail(items))

\* an append to a line left open adds no line
Room(n) ==
    /\ Len(wal_file.lines) + n - (IF wal_file.open /\ n > 0 THEN 1 ELSE 0) <= MaxWal
    /\ opSeq < MaxOps

BeginOp(kind, items, sf) ==
    /\ pc = "idle"
    /\ Room(Len(items))
    /\ cur' = [kind |-> kind, items |-> items, sf |-> sf, idx |-> 0, durable |-> {},
               sound |-> FALSE]
    /\ pc' = IF items = <<>> THEN "mem" ELSE "wal"
    /\ opSeq' = IF items = <<>> THEN opSeq ELSE opSeq + 1
    /\ recovered' = FALSE
    /\ inflight' = NoInflight
    /\ UNCHANGED <<acked, dirty, deleted>>
    /\ UNCHANGED <<data, data_file, wal_file, debug, ret>>
    /\ UNCHANGED notStore

\* set(key, value, simulate_failure): entry, lock taken
Set(k, v, sf) == BeginOp("set", <<<<k, v>>>>, sf)

\* bulk_set(items, simulate_failure): entry, lock taken
BulkSet(items, sf) == BeginOp("bulk_set", items, sf)

\* delete(key, simulate_failure) of a present key: entry, lock taken
DeletePresent(k, sf) ==
    /\ data[k] # NoValue
    /\ BeginOp("delete", <<<<k, NoValue>>>>, sf)

\* a delete of an absent key that appends its record all the same
DeleteAbsentLogs(k) ==
    /\ pc = "idle"
    /\ data[k] = NoValue
    /\ wal_file' = AppendWal(wal_file, WalRecord("delete", <<k, NoValue>>, opSeq))
    /\ ret' = [kind |-> "delete", ok |-> FALSE, n |-> 0, key |-> k]
    /\ recovered' = FALSE
    /\ inflight' = NoInflight
    /\ UNCHANGED <<acked, dirty, deleted>>
    /\ UNCHANGED <<data, data_file, debug, pc, cur, opSeq>>
    /\ UNCHANGED notStore

\* delete(key) of an absent key: returns False at once
DeleteAbsent(k) ==
    /\ pc = "idle"
    /\ data[k] = NoValue
    /\ ret' = [kind |-> "delete", ok |-> FALSE, n |-> 0, key |-> k]
    /\ recovered' = FALSE
    /\ inflight' = NoInflight
    /\ UNCHANGED <<acked, dirty, deleted>>
    /\ UNCHANGED <<data, data_file, wal_file, debug, pc, cur, opSeq>>
    /\ UNCHANGED notStore

\* get(key)
Get(k) ==
    /\ pc = "idle"
    /\ ret' = [kind |-> "get", ok |-> data[k] # NoValue, n |-> data[k], key |-> k]
    /\ UNCHANGED <<data, data_file, wal_file, debug, pc, cur, opSeq, acked, dirty, recovered>>
    /\ UNCHANGED <<deleted, inflight>>
    /\ UNCHANGED notStore

\* one _append_wal call of the operation in progress
WalAppendStep ==
    /\ pc = "wal"
    /\ wal_file' = AppendWal(wal_file, WalRecord(cur.kind, cur.items[cur.idx + 1], opSeq))
    /\ cur' = [cur EXCEPT !.idx = cur.idx + 1,
                          !.durable = IF wal_file.open THEN cur.durable
                                      ELSE cur.durable \cup {cur.idx + 1}]
    /\ pc' = IF cur.idx + 1 = Len(cur.items) THEN "mem" ELSE "wal"
    /\ UNCHANGED <<data, data_file, debug, ret, opSeq, acked, dirty, recovered>>
    /\ UNCHANGED <<deleted, inflight>>
    /\ UNCHANGED notStore

\* the update of self._data
MemUpdate ==
    /\ pc = "mem"
    /\ data' = ApplyItems(data, cur.kind, cur.items)
    /\ pc' = "save"
    /\ UNCHANGED <<data_file, wal_file, debug, cur, ret, opSeq, acked, dirty, recovered>>
    /\ UNCHANGED <<deleted, inflight>>
    /\ UNCHANGED notStore

\* _save, the debug skip: simulate_failure and self.debug and random() < 0.01
SaveSkip ==
    /\ pc = "save"
    /\ cur.sf /\ debug
    /\ pc' = "ret"
    /\ UNCHANGED <<data, data_file, wal_file, debug, cur, ret, opSeq, acked, dirty, recovered>>
    /\ UNCHANGED <<deleted, inflight>>
    /\ UNCHANGED notStore

\* _save: open(self._data_file, "w") truncates the file
SaveOpen ==
    /\ pc = "save"
    /\ data_file' = [st |-> "torn", map |-> EmptyMap, seq |-> 0]
    /\ pc' = "save_write"
    /\ UNCHANGED <<data, wal_file, debug, cur, ret, opSeq, acked, dirty, recovered>>
    /\ UNCHANGED <<deleted, inflight>>
    /\ UNCHANGED notStore

\* _save: json.dump, flush, fsync
SaveWrite ==
    /\ pc = "save_write"
    /\ data_file' = [st |-> "ok", map |-> data, seq |-> opSeq]
    /\ pc' = IF cur.kind = "checkpoint" THEN "clear" ELSE "ret"
    /\ UNCHANGED <<data, wal_file, debug, cur, ret, opSeq, acked, dirty, recovered>>
    /\ UNCHANGED <<deleted, inflight>>
    /\ UNCHANGED notStore

\* the return of set / delete / bulk_set: the acknowledgement
Return ==
    /\ pc = "ret"
    /\ ret' = [kind |-> cur.kind, ok |-> TRUE, n |-> Len(cur.items),
               key |-> IF cur.kind = "delete" THEN cur.items[1][1] ELSE 0]
    /\ acked' = [k \in Keys |-> IF k \in ItemKeys(cur.items) THEN data[k] ELSE acked[k]]
    /\ dirty' = dirty \ ItemKeys(cur.items)
    /\ deleted' = IF cur.kind = "delete" THEN deleted \cup ItemKeys(cur.items)
                  ELSE deleted \ ItemKeys(cur.items)
    /\ cur' = NoOp
    /\ pc' = "idle"
    /\ UNCHANGED <<data, data_file, wal_file, debug, opSeq, recovered, inflight>>
    /\ UNCHANGED notStore

\* checkpoint(): entry, lock taken; _save() follows
Checkpoint ==
    /\ pc = "idle"
    /\ cur' = [kind |-> "checkpoint", items |-> <<>>, sf |-> FALSE, idx |-> 0,
               durable |-> {}, sound |-> Recover(data_file, wal_file) = data]
    /\ pc' = "save"
    /\ recovered' = FALSE
    /\ inflight' = NoInflight
    /\ UNCHANGED <<acked, dirty, deleted>>
    /\ UNCHANGED <<data, data_file, wal_file, debug, ret, opSeq>>
    /\ UNCHANGED notStore

\* a checkpoint that returns with the log file left in place
ClearWalKeeps ==
    /\ pc = "clear"
    /\ ret' = [kind |-> "checkpoint", ok |-> TRUE, n |-> 0, key |-> 0]
    /\ cur' = NoOp
    /\ pc' = "idle"
    /\ UNCHANGED <<data, data_file, wal_file, debug, opSeq, acked, dirty, recovered>>
    /\ UNCHANGED <<deleted, inflight>>
    /\ UNCHANGED notStore

\* clear_wal(): os.remove(wal.log), then checkpoint returns
ClearWal ==
    /\ pc = "clear"
    /\ wal_file' = EmptyWal
    /\ ret' = [kind |-> "checkpoint", ok |-> TRUE, n |-> 0, key |-> 0]
    /\ cur' = NoOp
    /\ pc' = "idle"
    /\ UNCHANGED <<data, data_file, debug, opSeq, acked, dirty, recovered>>
    /\ UNCHANGED <<deleted, inflight>>
    /\ UNCHANGED notStore

\* a hard kill of the process, at any point
Kill ==
    /\ pc # "down"
    /\ wal_file' \in
         IF pc = "wal"
         THEN TornAppends(wal_file, WalRecord(cur.kind, cur.items[cur.idx + 1], opSeq))
         ELSE {wal_file}
    /\ dirty' = dirty \cup ItemKeys(cur.items)
    /\ inflight' =
         [kind |-> cur.kind,
          n |-> Len(cur.items),
          written |->
              IF data_file.st = "ok" /\ data_file.seq = opSeq /\ pc = "ret"
                 /\ cur.items # <<>>
              THEN 1..Len(cur.items)
              ELSE cur.durable \cup
                   (IF /\ pc = "wal"
                       /\ Len(wal_file'.lines) > Len(wal_file.lines)
                       /\ wal_file'.lines[Len(wal_file'.lines)].op # "garbage"
                    THEN {cur.idx + 1} ELSE {}),
          map |-> IF cur.kind = "checkpoint" THEN data ELSE EmptyMap,
          sound |-> cur.sound]
    /\ data' = EmptyMap
    /\ cur' = NoOp
    /\ ret' = NoRet
    /\ pc' = "down"
    /\ recovered' = FALSE
    /\ UNCHANGED <<data_file, debug, opSeq, acked, deleted>>
    /\ UNCHANGED notStore

\* the lines of the log and the snapshot become part of the pre-start state
Rebase(lines) == [i \in 1..Len(lines) |-> [lines[i] EXCEPT !.seq = 0]]

\* KeyValueStore.__init__ after a kill: _load_data(), _replay_wal()
Restart ==
    /\ pc = "down"
    /\ data' = Recover(data_file, wal_file)
    /\ wal_file' = [wal_file EXCEPT !.lines = Rebase(wal_file.lines)]
    /\ data_file' = [data_file EXCEPT !.seq = 0]
    /\ opSeq' = 0
    /\ pc' = "idle"
    /\ recovered' = TRUE
    /\ UNCHANGED <<debug, cur, ret, acked, dirty, deleted, inflight>>
    /\ UNCHANGED notStore

StoreInit ==
    /\ data = EmptyMap
    /\ data_file = [st |-> "absent", map |-> EmptyMap, seq |-> 0]
    /\ wal_file = EmptyWal
    /\ debug \in BOOLEAN
    /\ pc = "idle"
    /\ cur = NoOp
    /\ ret = NoRet
    /\ opSeq = 0
    /\ acked = EmptyMap
    /\ dirty = {}
    /\ recovered = FALSE
    /\ deleted = {}
    /\ inflight = NoInflight

StoreNext ==
    \/ \E k \in Keys, v \in Values, sf \in BOOLEAN : Set(k, v, sf)
    \/ \E items \in Items, sf \in BOOLEAN : BulkSet(items, sf)
    \/ \E k \in Keys, sf \in BOOLEAN : DeletePresent(k, sf)
    \/ \E k \in Keys : DeleteAbsent(k)
    \/ \E k \in Keys : Get(k)
    \/ WalAppendStep
    \/ MemUpdate
    \/ SaveSkip
    \/ SaveOpen
    \/ SaveWrite
    \/ Return
    \/ Checkpoint
    \/ ClearWal
    \/ Kill
    \/ Restart

(***************************************************************************)
(* The same operations called from several threads.  Each call takes       *)
(* _lock on entry and gives it back when it returns; the steps of a call   *)
(* are the statements of its body.  Thread t writes the value t.           *)
(***************************************************************************)
MaxCalls == 3

Threads == {1, 2}

ThreadItems(t) == UNION {[1..n -> Keys \X {t}] : n \in 0..MaxBulk}

NoCall == [kind |-> "none", items |-> <<>>, idx |-> 0, midx |-> 0]

NoResult == [kind |-> "none", ok |-> FALSE, n |-> 0, key |-> 0]

\* the sequential meaning of a call: the map after it
SerialMap(m, kind, items) ==
    [k \in Keys |->
        LET at == {i \in 1..Len(items) : items[i][1] = k}
        IN  IF at = {} \/ kind = "get" THEN m[k]
            ELSE IF kind = "delete" THEN NoValue
            ELSE items[CHOOSE i \in at : \A j \in at : j <= i][2]]

\* the sequential meaning of a call: what it returns
SerialResult(m, kind, items) ==
    IF kind = "get"
    THEN [kind |-> kind, ok |-> m[items[1][1]] # NoValue, n |-> m[items[1][1]],
          key |-> items[1][1]]
    ELSE IF kind = "delete"
    THEN [kind |-> kind, ok |-> m[items[1][1]] # NoValue, n |-> 0, key |-> items[1][1]]
    ELSE IF kind = "set"
    THEN [kind |-> kind, ok |-> TRUE, n |-> 0, key |-> items[1][1]]
    ELSE [kind |-> kind, ok |-> TRUE, n |-> Len(items), key |-> 0]

\* a lock that every thread may enter at any time
LockIgnored == TRUE

\* with self._lock: the thread enters when no thread holds the lock
LockFree == lock = 0

\* a store that keeps the first value written to a key
PutIfAbsent(m, kind, item) ==
    IF kind = "delete" THEN [m EXCEPT ![item[1]] = NoValue]
    ELSE IF m[item[1]] # NoValue THEN m
    ELSE [m EXCEPT ![item[1]] = item[2]]

\* self._data[key] = value, del self._data[key]
PutItem(m, kind, item) ==
    IF kind = "delete" THEN [m EXCEPT ![item[1]] = NoValue]
    ELSE [m EXCEPT ![item[1]] = item[2]]

\* set / delete of a present key / bulk_set: entry, lock taken
TCall(t, kind, items) ==
    /\ tpc[t] = "idle"
    /\ calls < MaxCalls
    /\ LockFree
    /\ kind = "delete" => data[items[1][1]] # NoValue
    /\ lock' = t
    /\ tcur' = [tcur EXCEPT ![t] = [kind |-> kind, items |-> items, idx |-> 0, midx |-> 0]]
    /\ tpc' = [tpc EXCEPT ![t] = IF items = <<>> THEN "save" ELSE "wal"]
    /\ calls' = calls + 1
    /\ expect' = [expect EXCEPT ![t] = SerialResult(serial, kind, items)]
    /\ serial' = SerialMap(serial, kind, items)
    /\ UNCHANGED <<data, data_file, wal_file, tret, lastWrite>>
    /\ UNCHANGED notThr

TSet(t, k) == TCall(t, "set", <<<<k, t>>>>)

TBulkSet(t, items) == TCall(t, "bulk_set", items)

TDeletePresent(t, k) == TCall(t, "delete", <<<<k, NoValue>>>>)

\* delete of an absent key: lock taken, False returned, lock given back
TDeleteAbsent(t, k) ==
    /\ tpc[t] = "idle"
    /\ calls < MaxCalls
    /\ LockFree
    /\ data[k] = NoValue
    /\ tret' = [tret EXCEPT ![t] = [kind |-> "delete", ok |-> FALSE, n |-> 0, key |-> k]]
    /\ calls' = calls + 1
    /\ expect' = [expect EXCEPT ![t] = SerialResult(serial, "delete", <<<<k, NoValue>>>>)]
    /\ serial' = SerialMap(serial, "delete", <<<<k, NoValue>>>>)
    /\ UNCHANGED <<data, data_file, wal_file, lock, tpc, tcur, lastWrite>>
    /\ UNCHANGED notThr

\* get: lock taken, self._data.get(key) returned, lock given back
TGet(t, k) ==
    /\ tpc[t] = "idle"
    /\ calls < MaxCalls
    /\ LockFree
    /\ tret' = [tret EXCEPT ![t] =
                  [kind |-> "get", ok |-> data[k] # NoValue, n |-> data[k], key |-> k]]
    /\ calls' = calls + 1
    /\ expect' = [expect EXCEPT ![t] = SerialResult(serial, "get", <<<<k, NoValue>>>>)]
    /\ UNCHANGED <<data, data_file, wal_file, lock, tpc, tcur, serial, lastWrite>>
    /\ UNCHANGED notThr

\* one _append_wal call of the thread's call
TWalAppend(t) ==
    /\ tpc[t] = "wal"
    /\ wal_file' = AppendWal(wal_file,
                             WalRecord(tcur[t].kind, tcur[t].items[tcur[t].idx + 1], 0))
    /\ tcur' = [tcur EXCEPT ![t].idx = tcur[t].idx + 1]
    /\ tpc' = [tpc EXCEPT ![t] = IF tcur[t].idx + 1 = Len(tcur[t].items) THEN "mem" ELSE "wal"]
    /\ UNCHANGED <<data, data_file, lock, tret, calls, serial, expect, lastWrite>>
    /\ UNCHANGED notThr

\* one update of self._data of the thread's call
TMemStep(t) ==
    /\ tpc[t] = "mem"
    /\ data' = PutItem(data, tcur[t].kind, tcur[t].items[tcur[t].midx + 1])
    /\ tcur' = [tcur EXCEPT ![t].midx = tcur[t].midx + 1]
    /\ tpc' = [tpc EXCEPT ![t] = IF tcur[t].midx + 1 = Len(tcur[t].items) THEN "save" ELSE "mem"]
    /\ UNCHANGED <<data_file, wal_file, lock, tret, calls, serial, expect, lastWrite>>
    /\ UNCHANGED notThr

\* _save: open(self._data_file, "w")
TSaveOpen(t) ==
    /\ tpc[t] = "save"
    /\ data_file' = [st |-> "torn", map |-> EmptyMap, seq |-> 0]
    /\ tpc' = [tpc EXCEPT ![t] = "save_write"]
    /\ UNCHANGED <<data, wal_file, lock, tcur, tret, calls, serial, expect, lastWrite>>
    /\ UNCHANGED notThr

\* _save: json.dump, flush, fsync
TSaveWrite(t) ==
    /\ tpc[t] = "save_write"
    /\ data_file' = [st |-> "ok", map |-> data, seq |-> 0]
    /\ tpc' = [tpc EXCEPT ![t] = "ret"]
    /\ UNCHANGED <<data, wal_file, lock, tcur, tret, calls, serial, expect, lastWrite>>
    /\ UNCHANGED notThr

\* the return of set / delete / bulk_set: the lock is given back
TReturn(t) ==
    /\ tpc[t] = "ret"
    /\ tret' = [tret EXCEPT ![t] =
                  [kind |-> tcur[t].kind, ok |-> TRUE,
                   n |-> IF tcur[t].kind = "bulk_set" THEN Len(tcur[t].items) ELSE 0,
                   key |-> IF tcur[t].kind = "bulk_set" THEN 0 ELSE tcur[t].items[1][1]]]
    /\ lastWrite' = SerialMap(lastWrite, tcur[t].kind, tcur[t].items)
    /\ lock' = 0
    /\ tcur' = [tcur EXCEPT ![t] = NoCall]
    /\ tpc' = [tpc EXCEPT ![t] = "idle"]
    /\ UNCHANGED <<data, data_file, wal_file, calls, serial, expect>>
    /\ UNCHANGED notThr

ThrInit ==
    /\ lock = 0
    /\ tpc = [t \in Threads |-> "idle"]
    /\ tcur = [t \in Threads |-> NoCall]
    /\ tret = [t \in Threads |-> NoResult]
    /\ calls = 0
    /\ serial = EmptyMap
    /\ expect = [t \in Threads |-> NoResult]
    /\ lastWrite = EmptyMap

ThrNext ==
    \/ \E t \in Threads, k \in Keys : TSet(t, k)
    \/ \E t \in Threads : \E items \in ThreadItems(t) : TBulkSet(t, items)
    \/ \E t \in Threads, k \in Keys : TDeletePresent(t, k)
    \/ \E t \in Threads, k \in Keys : TDeleteAbsent(t, k)
    \/ \E t \in Threads, k \in Keys : TGet(t, k)
    \/ \E t \in Threads : TWalAppend(t)
    \/ \E t \in Threads : TMemStep(t)
    \/ \E t \in Threads : TSaveOpen(t)
    \/ \E t \in Threads : TSaveWrite(t)
    \/ \E t \in Threads : TReturn(t)

(***************************************************************************)
(* Leader mode: ReplicationNode (src/replication.py) with the /vote and    *)
(* /heartbeat handlers of src/src/replicated_server.py.                    *)
(*                                                                         *)
(* A peer call is a synchronous HTTP request: the callee's handler runs    *)
(* under the callee's lock while the caller waits, so a call is one step;  *)
(* it can fail (callee not listening, connection refused, timeout) and its *)
(* reply can be lost after the handler ran (timeout).  start_election      *)
(* releases the node lock between its three parts, so other handlers of    *)
(* the same node interleave with it.  start_election runs in __init__,     *)
(* from check_primary_health, and is a public method of the node.          *)
(***************************************************************************)
MaxCluster == 4
MaxElections == 2
MaxKills == 1
MaxHealthElections == 4

\* the cluster of run_cluster.py, and of "majority (2 out of 3)"
ClusterNodes == 3
None == 0
LNodes == 1..MaxCluster
LTerms == 1..(MaxHealthElections + 2)


Members == 1..size

\* self.peers: the other nodes, in the order of the command line
Peers(n) ==
    [i \in 1..(size - 1) |-> IF i < n THEN i ELSE i + 1]

\* the majority of the full cluster
Majority == (size \div 2) + 1

\* "Become primary if we have majority (2 out of 3)": votes >= 2
VotesNeeded == 2

\* handle_vote_request(term, candidate_id) at a node with the given fields:
\* the reply and the fields afterwards
VoteDecision(t, cand, myTerm, myVoted, myPrimary) ==
    IF t > myTerm
    THEN [granted |-> TRUE, term |-> t, voted_for |-> cand, is_primary |-> FALSE]
    ELSE IF t = myTerm /\ myVoted = None
    THEN [granted |-> TRUE, term |-> myTerm, voted_for |-> cand, is_primary |-> myPrimary]
    ELSE [granted |-> FALSE, term |-> myTerm, voted_for |-> myVoted, is_primary |-> myPrimary]

RecordVote(n, t, cand) ==
    [votedIn EXCEPT ![n][t] = votedIn[n][t] \cup {cand}]

\* start_election, first part (under the lock): term += 1, vote for self
ElectionEntry(n) ==
    /\ term' = [term EXCEPT ![n] = term[n] + 1]
    /\ voted_for' = [voted_for EXCEPT ![n] = n]
    /\ is_primary' = [is_primary EXCEPT ![n] = FALSE]
    /\ votes' = [votes EXCEPT ![n] = 1]
    /\ eidx' = [eidx EXCEPT ![n] = 0]
    /\ epc' = [epc EXCEPT ![n] = "asking"]
    /\ votedIn' = RecordVote(n, term[n] + 1, n)

\* ReplicationNode.__init__ of a process that is started (or started again):
\* fresh volatile fields, then start_election(); the server does not listen yet
Start(n) ==
    /\ n \in Members
    /\ ~up[n]
    /\ up' = [up EXCEPT ![n] = TRUE]
    /\ term' = [term EXCEPT ![n] = 1]
    /\ voted_for' = [voted_for EXCEPT ![n] = n]
    /\ is_primary' = [is_primary EXCEPT ![n] = FALSE]
    /\ primary_node' = [primary_node EXCEPT ![n] = None]
    /\ votes' = [votes EXCEPT ![n] = 1]
    /\ eidx' = [eidx EXCEPT ![n] = 0]
    /\ epc' = [epc EXCEPT ![n] = "asking"]
    /\ votedIn' = RecordVote(n, 1, n)
    /\ UNCHANGED <<size, listening, hbidx, elections, kills>>
    /\ UNCHANGED notLeader

\* start_election() on a running node (check_primary_health, or a direct call)
StartElection(n) ==
    /\ n \in Members
    /\ up[n] /\ listening[n]
    /\ epc[n] = "idle"
    /\ elections < MaxElections
    /\ elections' = elections + 1
    /\ ElectionEntry(n)
    /\ UNCHANGED <<size, up, listening, primary_node, hbidx, kills>>
    /\ UNCHANGED notLeader

\* start_election, one turn of the loop over self.peers: POST /vote with the
\* node's present term; delivered: the peer's handler ran; replied: the
\* reply came back in time
AskPeer(n, delivered, replied) ==
    /\ n \in Members
    /\ up[n]
    /\ epc[n] = "asking"
    /\ eidx[n] < size - 1
    /\ LET p == Peers(n)[eidx[n] + 1]
           d == VoteDecision(term[n], n, term[p], voted_for[p], is_primary[p])
       IN  /\ delivered => (up[p] /\ listening[p])
           /\ replied => delivered
           /\ IF delivered
              THEN /\ term' = [term EXCEPT ![p] = d.term]
                   /\ voted_for' = [voted_for EXCEPT ![p] = d.voted_for]
                   /\ is_primary' = [is_primary EXCEPT ![p] = d.is_primary]
                   /\ votedIn' = IF d.granted THEN RecordVote(p, term[n], n) ELSE votedIn
              ELSE UNCHANGED <<term, voted_for, is_primary, votedIn>>
           /\ votes' = [votes EXCEPT ![n] =
                           IF replied /\ d.granted THEN votes[n] + 1 ELSE votes[n]]
    /\ eidx' = [eidx EXCEPT ![n] = eidx[n] + 1]
    /\ UNCHANGED <<size, up, listening, primary_node, epc, hbidx, elections, kills>>
    /\ UNCHANGED notLeader

\* start_election, last part: the test on votes; after the election of
\* __init__ the server starts to listen
ElectionEnd(n) ==
    /\ n \in Members
    /\ up[n]
    /\ epc[n] = "asking"
    /\ eidx[n] = size - 1
    /\ IF votes[n] >= VotesNeeded
       THEN /\ is_primary' = [is_primary EXCEPT ![n] = TRUE]
            /\ primary_node' = [primary_node EXCEPT ![n] = n]
       ELSE /\ is_primary' = [is_primary EXCEPT ![n] = FALSE]
            /\ UNCHANGED primary_node
    /\ epc' = [epc EXCEPT ![n] = "idle"]
    /\ eidx' = [eidx EXCEPT ![n] = 0]
    /\ listening' = [listening EXCEPT ![n] = TRUE]
    /\ UNCHANGED <<size, up, term, voted_for, votes, hbidx, votedIn, elections, kills>>
    /\ UNCHANGED notLeader

\* _replication_loop: the test of the while loop, a round begins
HeartbeatRound(n) ==
    /\ n \in Members
    /\ up[n]
    /\ is_primary[n]
    /\ hbidx[n] = -1
    /\ hbidx' = [hbidx EXCEPT ![n] = 0]
    /\ UNCHANGED <<size, up, listening, term, voted_for, is_primary, primary_node,
                   epc, eidx, votes, votedIn, elections, kills>>
    /\ UNCHANGED notLeader

\* a handler that takes a heartbeat of a greater term only
HeartbeatDecisionStrict(t, n, myTerm, myPrimary, myPrimaryNode) ==
    IF t > myTerm
    THEN [term |-> t, is_primary |-> FALSE, primary_node |-> n, refreshed |-> TRUE]
    ELSE [term |-> myTerm, is_primary |-> myPrimary, primary_node |-> myPrimaryNode,
          refreshed |-> FALSE]

\* a handler that takes the term of every heartbeat
HeartbeatDecisionAny(t, n, myTerm, myPrimary, myPrimaryNode) ==
    [term |-> t, is_primary |-> FALSE, primary_node |-> n, refreshed |-> TRUE]

\* _handle_heartbeat at node p for a heartbeat of term t from node n;
\* refreshed: last_heartbeat = time.time()
HeartbeatDecision(t, n, myTerm, myPrimary, myPrimaryNode) ==
    IF t >= myTerm
    THEN [term |-> t, is_primary |-> FALSE, primary_node |-> n, refreshed |-> TRUE]
    ELSE [term |-> myTerm, is_primary |-> myPrimary, primary_node |-> myPrimaryNode,
          refreshed |-> FALSE]

\* _replication_loop: one POST /heartbeat of the round, with the node's present term
HeartbeatSend(n, delivered) ==
    /\ n \in Members
    /\ up[n]
    /\ hbidx[n] >= 0
    /\ LET p == Peers(n)[hbidx[n] + 1]
           d == HeartbeatDecision(term[n], n, term[p], is_primary[p], primary_node[p])
       IN  /\ delivered => (up[p] /\ listening[p])
           /\ IF delivered
              THEN /\ term' = [term EXCEPT ![p] = d.term]
                   /\ is_primary' = [is_primary EXCEPT ![p] = d.is_primary]
                   /\ primary_node' = [primary_node EXCEPT ![p] = d.primary_node]
              ELSE UNCHANGED <<term, is_primary, primary_node>>
    /\ hbidx' = [hbidx EXCEPT ![n] = IF hbidx[n] + 1 = size - 1 THEN -1 ELSE hbidx[n] + 1]
    /\ UNCHANGED <<size, up, listening, voted_for, epc, eidx, votes, votedIn, elections, kills>>
    /\ UNCHANGED notLeader

\* a hard kill of the node's process: every field of the node is volatile
KillNode(n) ==
    /\ n \in Members
    /\ up[n] /\ listening[n]
    /\ kills < MaxKills
    /\ kills' = kills + 1
    /\ up' = [up EXCEPT ![n] = FALSE]
    /\ listening' = [listening EXCEPT ![n] = FALSE]
    /\ term' = [term EXCEPT ![n] = 0]
    /\ voted_for' = [voted_for EXCEPT ![n] = None]
    /\ is_primary' = [is_primary EXCEPT ![n] = FALSE]
    /\ primary_node' = [primary_node EXCEPT ![n] = None]
    /\ epc' = [epc EXCEPT ![n] = "idle"]
    /\ eidx' = [eidx EXCEPT ![n] = 0]
    /\ votes' = [votes EXCEPT ![n] = 0]
    /\ hbidx' = [hbidx EXCEPT ![n] = -1]
    /\ UNCHANGED <<size, votedIn, elections>>
    /\ UNCHANGED notLeader

\* The cluster after every node was constructed.  Each node ran the election
\* of __init__ at term 1 with a vote for itself; a peer that listened by then
\* had term 1 and had voted for itself, so it refused, and a peer that did not
\* listen did not answer: whatever the order of the starts, no vote is
\* granted and every node ends as follower of term 1.  (Nodes outside the
\* cluster keep the fields of a process that never ran.)
LeaderInit(sz) ==
    /\ size = sz
    /\ up = [n \in LNodes |-> n <= size]
    /\ listening = [n \in LNodes |-> n <= size]
    /\ term = [n \in LNodes |-> IF n <= size THEN 1 ELSE 0]
    /\ voted_for = [n \in LNodes |-> IF n <= size THEN n ELSE None]
    /\ is_primary = [n \in LNodes |-> FALSE]
    /\ primary_node = [n \in LNodes |-> None]
    /\ epc = [n \in LNodes |-> "idle"]
    /\ eidx = [n \in LNodes |-> 0]
    /\ votes = [n \in LNodes |-> IF n <= size THEN 1 ELSE 0]
    /\ hbidx = [n \in LNodes |-> -1]
    /\ votedIn = [n \in LNodes |-> [t \in LTerms |-> IF n <= size /\ t = 1 THEN {n} ELSE {}]]
    /\ elections = 0
    /\ kills = 0

\* the peer that the node's election asks next runs and listens
NextAskedListens(n) ==
    LET p == Peers(n)[eidx[n] + 1] IN up[p] /\ listening[p]

\* AskPeer on a network that loses nothing: the request reaches a peer that
\* listens, and its reply comes back
AskPeerReliable(n) ==
    /\ n \in Members
    /\ epc[n] = "asking"
    /\ eidx[n] < size - 1
    /\ AskPeer(n, NextAskedListens(n), NextAskedListens(n))

\* the peer that the node's heartbeat round serves next runs and listens
NextServedListens(n) ==
    LET p == Peers(n)[hbidx[n] + 1] IN up[p] /\ listening[p]

\* HeartbeatSend on a network that loses nothing
HeartbeatSendReliable(n) ==
    /\ n \in Members
    /\ hbidx[n] >= 0
    /\ HeartbeatSend(n, NextServedListens(n))

\* check_primary_health (every second, _health_check_loop) at a follower that
\* knows a primary which does not answer /ping, once the last heartbeat is
\* more than 2 s old: start_election().  The other branches (the node is
\* primary, it knows no primary, the ping is answered) change no field but
\* last_heartbeat.  No heartbeat comes from a primary that is down, so the
\* age test passes from some time on.
CheckHealth(n) ==
    /\ n \in Members
    /\ up[n] /\ listening[n]
    /\ epc[n] = "idle"
    /\ ~is_primary[n]
    /\ primary_node[n] # None
    /\ ~(up[primary_node[n]] /\ listening[primary_node[n]])
    /\ elections < MaxHealthElections
    /\ elections' = elections + 1
    /\ ElectionEntry(n)
    /\ UNCHANGED <<size, up, listening, primary_node, hbidx, kills>>
    /\ UNCHANGED notLeader

\* three nodes, none started yet
FreshInit ==
    /\ size = ClusterNodes
    /\ up = [n \in LNodes |-> FALSE]
    /\ listening = [n \in LNodes |-> FALSE]
    /\ term = [n \in LNodes |-> 0]
    /\ voted_for = [n \in LNodes |-> None]
    /\ is_primary = [n \in LNodes |-> FALSE]
    /\ primary_node = [n \in LNodes |-> None]
    /\ epc = [n \in LNodes |-> "idle"]
    /\ eidx = [n \in LNodes |-> 0]
    /\ votes = [n \in LNodes |-> 0]
    /\ hbidx = [n \in LNodes |-> -1]
    /\ votedIn = [n \in LNodes |-> [t \in LTerms |-> {}]]
    /\ elections = 0
    /\ kills = 0

\* the cluster from its first start, on a network that loses nothing
FreshNext ==
    \/ \E n \in LNodes : Start(n)
    \/ \E n \in LNodes : StartElection(n)
    \/ \E n \in LNodes : AskPeerReliable(n)
    \/ \E n \in LNodes : ElectionEnd(n)
    \/ \E n \in LNodes : HeartbeatRound(n)
    \/ \E n \in LNodes : HeartbeatSendReliable(n)
    \/ \E n \in LNodes : CheckHealth(n)
    \/ \E n \in LNodes : KillNode(n)

\* node a was elected at term 2 with the votes in granted, and its
\* heartbeats have reached both followers
Established(a, granted) ==
    /\ size = ClusterNodes
    /\ up = [n \in LNodes |-> n <= size]
    /\ listening = [n \in LNodes |-> n <= size]
    /\ term = [n \in LNodes |-> IF n <= size THEN 2 ELSE 0]
    /\ voted_for = [n \in LNodes |-> IF n > size THEN None
                                      ELSE IF n = a \/ n \in granted THEN a ELSE n]
    /\ is_primary = [n \in LNodes |-> n = a]
    /\ primary_node = [n \in LNodes |-> IF n <= size THEN a ELSE None]
    /\ epc = [n \in LNodes |-> "idle"]
    /\ eidx = [n \in LNodes |-> 0]
    /\ votes = [n \in LNodes |-> IF n > size THEN 0
                                  ELSE IF n = a THEN 1 + Cardinality(granted) ELSE 1]
    /\ hbidx = [n \in LNodes |-> -1]
    /\ votedIn = [n \in LNodes |-> [t \in LTerms |->
                     IF n > size THEN {}
                     ELSE IF t = 1 THEN {n}
                     ELSE IF t = 2 /\ (n = a \/ n \in granted) THEN {a}
                     ELSE {}]]
    /\ elections = 0
    /\ kills = 0

FailoverInit ==
    \E a \in 1..ClusterNodes : \E granted \in SUBSET ((1..ClusterNodes) \ {a}) :
        /\ granted # {}
        /\ Established(a, granted)

\* the cluster with its leader, on a network that loses nothing; elections
\* come from the health checks only
FailoverNext ==
    \/ \E n \in LNodes : KillNode(n)
    \/ \E n \in LNodes : CheckHealth(n)
    \/ \E n \in LNodes : AskPeerReliable(n)
    \/ \E n \in LNodes : ElectionEnd(n)
    \/ \E n \in LNodes : HeartbeatRound(n)
    \/ \E n \in LNodes : HeartbeatSendReliable(n)

\* the steps of a cluster whose processes stay up
ClusterNext ==
    \/ \E n \in LNodes : StartElection(n)
    \/ \E n \in LNodes, delivered \in BOOLEAN, replied \in BOOLEAN : AskPeer(n, delivered, replied)
    \/ \E n \in LNodes : ElectionEnd(n)
    \/ \E n \in LNodes : HeartbeatRound(n)
    \/ \E n \in LNodes, delivered \in BOOLEAN : HeartbeatSend(n, delivered)

LeaderNext ==
    \/ \E n \in LNodes : Start(n)
    \/ \E n \in LNodes : StartElection(n)
    \/ \E n \in LNodes, delivered \in BOOLEAN, replied \in BOOLEAN : AskPeer(n, delivered, replied)
    \/ \E n \in LNodes : ElectionEnd(n)
    \/ \E n \in LNodes : HeartbeatRound(n)
    \/ \E n \in LNodes, delivered \in BOOLEAN : HeartbeatSend(n, delivered)
    \/ \E n \in LNodes : KillNode(n)

(***************************************************************************)
(* Stopping a node of leader mode.  ReplicatedKVServer.stop() shuts the     *)
(* HTTP server down and calls ReplicationNode.stop(), which clears _running *)
(* and joins the heartbeat thread.  The heartbeat thread tests _running and *)
(* is_primary before each round; the health-check thread of the server is   *)
(* "while True".  _start_replication, called by a node that wins an         *)
(* election, sets _running and starts a heartbeat thread.                   *)
(***************************************************************************)
MaxStops == 2

notLeaderStop == <<storeVars, mlVars, thrVars, cliVars, replVars, pureVars, gosVars, cntVars, conVars, viewVars>>

\* ReplicatedKVServer.stop(): server.shutdown(), server_close(), replication_node.stop()
ServerStop(n) ==
    /\ n \in Members
    /\ up[n] /\ listening[n]
    /\ ~stopped[n]
    /\ stops < MaxStops
    /\ stops' = stops + 1
    /\ stopped' = [stopped EXCEPT ![n] = TRUE]
    /\ listening' = [listening EXCEPT ![n] = FALSE]
    /\ running' = [running EXCEPT ![n] = FALSE]
    /\ UNCHANGED <<size, up, term, voted_for, is_primary, primary_node, epc, eidx, votes,
                   hbidx, votedIn, elections, kills>>
    /\ UNCHANGED notLeaderStop

\* _health_check_loop, one turn that reaches start_election(): the loop has no
\* exit, so it runs at a node that serves and at a node that was stopped
HealthCheckLoop(n) ==
    /\ n \in Members
    /\ up[n]
    /\ listening[n] \/ stopped[n]
    /\ epc[n] = "idle"
    /\ ~is_primary[n]
    /\ primary_node[n] # None
    /\ ~(up[primary_node[n]] /\ listening[primary_node[n]])
    /\ elections < MaxElections
    /\ elections' = elections + 1
    /\ ElectionEntry(n)
    /\ UNCHANGED <<size, up, listening, primary_node, hbidx, kills>>
    /\ UNCHANGED notLeader

\* start_election, last part, with _start_replication() of the winner
ElectionFinish(n) ==
    /\ n \in Members
    /\ up[n]
    /\ epc[n] = "asking"
    /\ eidx[n] = size - 1
    /\ IF votes[n] >= VotesNeeded
       THEN /\ is_primary' = [is_primary EXCEPT ![n] = TRUE]
            /\ primary_node' = [primary_node EXCEPT ![n] = n]
            /\ running' = [running EXCEPT ![n] = TRUE]
       ELSE /\ is_primary' = [is_primary EXCEPT ![n] = FALSE]
            /\ UNCHANGED <<primary_node, running>>
    /\ epc' = [epc EXCEPT ![n] = "idle"]
    /\ eidx' = [eidx EXCEPT ![n] = 0]
    /\ UNCHANGED <<size, up, listening, term, voted_for, votes, hbidx, votedIn, elections, kills>>
    /\ UNCHANGED <<stopped, stops>>
    /\ UNCHANGED notLeaderStop

\* _replication_loop: "while self._running and self.is_primary"
ReplicationLoop(n) ==
    /\ running[n]
    /\ HeartbeatRound(n)

\* a cluster with its leader, whose heartbeat thread runs
StopInit ==
    /\ FailoverInit
    /\ running = is_primary
    /\ stopped = [n \in LNodes |-> FALSE]
    /\ stops = 0

\* nodes are stopped; the network loses nothing
StopNext ==
    \/ \E n \in LNodes : ServerStop(n)
    \/ \E n \in LNodes : HealthCheckLoop(n)
    \/ \E n \in LNodes : AskPeerReliable(n)
    \/ \E n \in LNodes : ElectionFinish(n)
    \/ \E n \in LNodes : ReplicationLoop(n)
    \/ \E n \in LNodes : HeartbeatSendReliable(n)

(***************************************************************************)
(* Client requests in leader mode (src/src/replicated_server.py).  The     *)
(* server handles one request at a time; a handler that finds the node not *)
(* primary reads primary_node next, and the node's own election thread can *)
(* run between the two reads (here any step of the cluster can).           *)
(***************************************************************************)
MaxRequests == 1

ReqKeys == {1}

ReqKinds == {"get", "set", "delete", "bulk_set"}

ReqItems(kind) ==
    IF kind = "bulk_set" THEN UNION {[1..n -> ReqKeys \X Values] : n \in 1..MaxBulk}
    ELSE IF kind = "set" THEN {<<<<k, v>>>> : k \in ReqKeys, v \in Values}
    ELSE {<<<<k, NoValue>>>> : k \in ReqKeys}

EmptyStore == [map |-> EmptyMap, wal |-> 0, snap |-> EmptyMap]

NoResp == [node |-> 0, kind |-> "none", status |-> "none", target |-> None,
           primary |-> FALSE, known |-> None, changed |-> FALSE]

\* KeyValueStore.set / get / delete / bulk_set on a node's store, run to its end
StoreExec(st, kind, items) ==
    IF kind = "get" \/ (kind = "delete" /\ st.map[items[1][1]] = NoValue) THEN st
    ELSE [map |-> SerialMap(st.map, kind, items),
          wal |-> st.wal + Len(items),
          snap |-> SerialMap(st.map, kind, items)]

\* the status of the answer of a primary
ExecStatus(st, kind, items) ==
    IF kind = "get" /\ st.map[items[1][1]] = NoValue THEN "not_found" ELSE "ok"

\* a handler that never takes the redirect branch
NeverRedirect(n) == FALSE

\* if self.replication_node and not self.replication_node.is_primary
NotPrimary(n) == ~is_primary[n]

\* do_GET /get, _handle_set, _handle_delete, _handle_bulk_set: the request arrives.
\* A primary runs the operation, replicates a write to the peers that take it, answers.
ClientArrive(n, kind, items, got) ==
    /\ n \in Members
    /\ up[n] /\ listening[n]
    /\ creq[n] = "none"
    /\ requests < MaxRequests
    /\ requests' = requests + 1
    /\ got \subseteq {p \in Members \ {n} : up[p] /\ listening[p]}
    /\ IF NotPrimary(n)
       THEN /\ creq' = [creq EXCEPT ![n] = kind]
            /\ got = {}
            /\ UNCHANGED <<nstore, resp>>
       ELSE /\ nstore' = [p \in LNodes |->
                             IF p = n THEN StoreExec(nstore[n], kind, items)
                             ELSE IF p \in got /\ kind # "get" /\ is_primary[n]
                             THEN StoreExec(nstore[p], kind, items)
                             ELSE nstore[p]]
            /\ resp' = [node |-> n, kind |-> kind,
                        status |-> ExecStatus(nstore[n], kind, items),
                        target |-> None, primary |-> is_primary[n],
                        known |-> primary_node[n],
                        changed |-> nstore'[n] # nstore[n]]
            /\ UNCHANGED creq
    /\ UNCHANGED notCli

\* the redirect branch: 307 to primary_node, or 503 when there is none
ClientRedirect(n) ==
    /\ creq[n] # "none"
    /\ UNCHANGED <<nstore, requests>>
    /\ resp' = [node |-> n, kind |-> creq[n],
                status |-> IF primary_node[n] # None THEN "redirect" ELSE "no_primary",
                target |-> primary_node[n], primary |-> FALSE,
                known |-> primary_node[n], changed |-> nstore'[n] # nstore[n]]
    /\ creq' = [creq EXCEPT ![n] = "none"]
    /\ UNCHANGED notCli

CliInit ==
    /\ nstore = [n \in LNodes |-> EmptyStore]
    /\ creq = [n \in LNodes |-> "none"]
    /\ resp = NoResp
    /\ requests = 0

ClientNext ==
    \/ \E n \in LNodes, kind \in ReqKinds, got \in SUBSET LNodes :
           \E items \in ReqItems(kind) : ClientArrive(n, kind, items, got)
    \/ \E n \in LNodes : ClientRedirect(n)
    \/ ClusterNext

(***************************************************************************)
(* Replication of client writes in leader mode: the primary's handler runs  *)
(* the operation on its own store, then replicate_to_secondaries posts it   *)
(* to each peer in the order of self.peers and waits for each answer, then  *)
(* the client is answered.  The server takes one request at a time.  Here   *)
(* the leader is established and stays, and no request is lost.             *)
(***************************************************************************)
MaxWrites == 2

WriteKinds == {"set", "delete", "bulk_set"}

NoWrite == [node |-> 0, kind |-> "none", items |-> <<>>, idx |-> 0]

\* an apply_operation without the delete branch
ApplyOperationNoDelete(st, kind, items) ==
    IF kind = "delete" THEN st ELSE StoreExec(st, kind, items)

\* apply_operation(operation) at a peer: kv_store.set / delete / bulk_set
ApplyOperation(st, kind, items) == StoreExec(st, kind, items)

\* _handle_set, _handle_delete, _handle_bulk_set at the primary, up to the
\* call of replicate_to_secondaries
PrimaryWrite(n, kind, items) ==
    /\ n \in Members
    /\ up[n] /\ listening[n]
    /\ is_primary[n]
    /\ wreq.kind = "none"
    /\ requests < MaxWrites
    /\ requests' = requests + 1
    /\ nstore' = [nstore EXCEPT ![n] = StoreExec(nstore[n], kind, items)]
    /\ applied' = [applied EXCEPT ![n] = Append(applied[n], [kind |-> kind, items |-> items])]
    /\ wreq' = [node |-> n, kind |-> kind, items |-> items, idx |-> 0]
    /\ UNCHANGED resp
    /\ UNCHANGED notRepl

\* replicate_to_secondaries, one turn of the loop: POST /replicate to the next
\* peer, whose _handle_replicate applies the operation and answers
ReplicateSend(n) ==
    /\ wreq.node = n
    /\ wreq.kind # "none"
    /\ wreq.idx < size - 1
    /\ LET p == Peers(n)[wreq.idx + 1]
       IN  /\ up[p] /\ listening[p]
           /\ nstore' = [nstore EXCEPT ![p] = ApplyOperation(nstore[p], wreq.kind, wreq.items)]
           /\ applied' = [applied EXCEPT ![p] =
                             Append(applied[p], [kind |-> wreq.kind, items |-> wreq.items])]
    /\ wreq' = [wreq EXCEPT !.idx = wreq.idx + 1]
    /\ UNCHANGED <<resp, requests>>
    /\ UNCHANGED notRepl

\* the answer to the client: 200
WriteAck(n) ==
    /\ wreq.node = n
    /\ wreq.kind # "none"
    /\ wreq.idx = size - 1
    /\ resp' = [node |-> n, kind |-> wreq.kind, status |-> "ok", target |-> None,
                primary |-> is_primary[n], known |-> primary_node[n], changed |-> FALSE]
    /\ wreq' = NoWrite
    /\ UNCHANGED <<nstore, requests, applied>>
    /\ UNCHANGED notRepl

ReplInit ==
    /\ wreq = NoWrite
    /\ applied = [n \in LNodes |-> <<>>]

(***************************************************************************)
(* Several clients write at the same time.  The leader's HTTPServer takes   *)
(* one connection at a time, in any order among the requests that wait, and *)
(* runs its handler (the local write, replicate_to_secondaries, the answer) *)
(* to the end before it takes the next.                                     *)
(***************************************************************************)
MaxBacklog == 2

BacklogIdle == backlog = <<>>

\* a client POSTs a write to the leader
ClientSend(kind, items) ==
    /\ Len(backlog) < MaxBacklog
    /\ backlog' = Append(backlog, [kind |-> kind, items |-> items, taken |-> FALSE])
    /\ UNCHANGED <<storeVars, leaderVars, mlVars, thrVars, cliVars, replVars, pureVars,
                   gosVars, stopVars, cntVars, viewVars>>

\* a server that handles each request in a thread of its own
HandlerFreeThreaded == TRUE

\* serve_forever of HTTPServer: the next request is taken when the handler
\* of the one before has returned
HandlerFree == wreq.kind = "none"

\* the leader takes the waiting request i: _handle_set, _handle_delete or
\* _handle_bulk_set up to the call of replicate_to_secondaries
ServeWrite(n, i) ==
    /\ n \in Members
    /\ up[n] /\ listening[n]
    /\ is_primary[n]
    /\ HandlerFree
    /\ i \in 1..Len(backlog)
    /\ ~backlog[i].taken
    /\ backlog' = [backlog EXCEPT ![i].taken = TRUE]
    /\ nstore' = [nstore EXCEPT ![n] = StoreExec(nstore[n], backlog[i].kind, backlog[i].items)]
    /\ applied' = [applied EXCEPT ![n] =
                      Append(applied[n], [kind |-> backlog[i].kind, items |-> backlog[i].items])]
    /\ wreq' = [node |-> n, kind |-> backlog[i].kind, items |-> backlog[i].items, idx |-> 0]
    /\ UNCHANGED <<resp, requests, creq>>
    /\ UNCHANGED <<storeVars, leaderVars, mlVars, thrVars, pureVars, gosVars, stopVars, cntVars, viewVars>>

\* concurrent client writes at the established leader, whose heartbeats go on
QueueNext ==
    \/ \E kind \in WriteKinds : \E items \in ReqItems(kind) : ClientSend(kind, items)
    \/ \E n \in LNodes, i \in 1..MaxBacklog : ServeWrite(n, i)
    \/ \E n \in LNodes : ReplicateSend(n)
    \/ \E n \in LNodes : WriteAck(n)
    \/ \E n \in LNodes : HeartbeatRound(n)
    \/ \E n \in LNodes : HeartbeatSendReliable(n)

\* the server of node p is not inside a client request (it handles one
\* request at a time)
Serving(p) == wreq.node # p

\* a /vote request during client writes: a peer that is inside a client
\* request does not take it in time
VoteDuringWrites(n, delivered, replied) ==
    /\ n \in Members
    /\ epc[n] = "asking"
    /\ eidx[n] < size - 1
    /\ delivered => Serving(Peers(n)[eidx[n] + 1])
    /\ AskPeer(n, delivered, replied)

\* a /heartbeat request during client writes
HeartbeatDuringWrites(n) ==
    /\ n \in Members
    /\ hbidx[n] >= 0
    /\ HeartbeatSend(n, NextServedListens(n) /\ Serving(Peers(n)[hbidx[n] + 1]))

\* check_primary_health at a follower whose ping to the primary was lost and
\* whose last heartbeat is old: start_election()
FollowerElection(n) ==
    /\ ~is_primary[n]
    /\ primary_node[n] # None
    /\ StartElection(n)

\* client sets while elections take place and requests are lost
DeposedNext ==
    \/ \E n \in LNodes : \E items \in ReqItems("set") : PrimaryWrite(n, "set", items)
    \/ \E n \in LNodes : ReplicateSend(n)
    \/ \E n \in LNodes : WriteAck(n)
    \/ \E n \in LNodes : FollowerElection(n)
    \/ \E n \in LNodes, delivered \in BOOLEAN : VoteDuringWrites(n, delivered, delivered)
    \/ \E n \in LNodes : ElectionEnd(n)
    \/ \E n \in LNodes : HeartbeatRound(n)
    \/ \E n \in LNodes : HeartbeatDuringWrites(n)

\* client writes at the established leader, whose heartbeats go on
ReplNext ==
    \/ \E n \in LNodes, kind \in WriteKinds : \E items \in ReqItems(kind) : PrimaryWrite(n, kind, items)
    \/ \E n \in LNodes : ReplicateSend(n)
    \/ \E n \in LNodes : WriteAck(n)
    \/ \E n \in LNodes : HeartbeatRound(n)
    \/ \E n \in LNodes : HeartbeatSendReliable(n)

(***************************************************************************)
(* Leaderless mode: VectorClock and MasterlessNode                         *)
(* (src/masterless_replication.py), three nodes as in run_cluster.py.      *)
(*                                                                         *)
(* A node serves its requests on one thread (HTTPServer), so it is either  *)
(* idle or inside one client set or get; a peer call to a node that is not *)
(* idle times out.  A replicate_set whose sender timed out may still be    *)
(* handled later by the peer.                                              *)
(*                                                                         *)
(* A clock is a Python dict.  The node's own entry has the int key         *)
(* node_id; a clock that came over the wire (JSON) has str keys, and       *)
(* update() stores those entries under their str keys.  Int key n is       *)
(* written n here and str key "n" is written -n.                           *)
(***************************************************************************)
MaxSets == 2
MaxGets == 1
MaxPending == 1

\* replication_factor: int = 3
ReplicationFactor == 3

MlNodes == 1..ClusterNodes
MKeys == {1}
MValues == 1..MaxSets
CKeys == MlNodes \cup {-n : n \in MlNodes}
Absent == -1

\* {}
EmptyClock == [k \in CKeys |-> Absent]

\* not clock
IsEmpty(c) == \A k \in CKeys : c[k] = Absent

\* clock.get(node_id, 0)
At(c, k) == IF c[k] = Absent THEN 0 ELSE c[k]

\* VectorClock.compare(other_clock): -1 if this < other, 1 if this > other, else 0
Compare(this, other) ==
    LET less == \E k \in CKeys : At(this, k) < At(other, k)
        greater == \E k \in CKeys : At(this, k) > At(other, k)
    IN  IF less /\ ~greater THEN -1
        ELSE IF greater /\ ~less THEN 1
        ELSE 0

\* VectorClock.tick() of node n
Tick(c, n) == [c EXCEPT ![n] = At(c, n) + 1]

\* VectorClock.update(other_clock) of node n: entry-wise maximum, then own entry + 1
Update(c, n, other) ==
    Tick([k \in CKeys |->
            IF other[k] = Absent THEN c[k]
            ELSE IF At(c, k) >= other[k] THEN At(c, k) ELSE other[k]], n)

\* json.dumps then json.loads of a clock: every key becomes a str key; of an
\* int key and a str key for the same node the str key, inserted later, wins
ToWire(c) ==
    [k \in CKeys |->
        IF k > 0 THEN Absent
        ELSE IF c[k] # Absent THEN c[k] ELSE c[-k]]

\* self.peers, in the order of the command line
MlPeers(n) == [i \in 1..(ClusterNodes - 1) |-> IF i < n THEN i ELSE i + 1]

\* _get_replica_nodes(key), with h = hash(key) % len(all_nodes)
ReplicaNodes(n, h) ==
    LET all_nodes == <<n>> \o MlPeers(n)
    IN  [i \in 1..ReplicationFactor |-> all_nodes[((h + i - 1) % Len(all_nodes)) + 1]]

\* replication_factor // 2: a quorum that is one short of a majority
QuorumSizeShort == ReplicationFactor \div 2

\* replication_factor // 2 + 1
QuorumSize == (ReplicationFactor \div 2) + 1

\* "__DELETED__", the value that _handle_delete sets
Tombstone == MaxSets + 1

NoMop == [key |-> 0, value |-> NoValue, clock |-> EmptyClock, replicas |-> <<>>, idx |-> 0,
          success_count |-> 0, values |-> <<>>, answered |-> {}]

NoMret == [kind |-> "none", node |-> 0, key |-> 0, value |-> NoValue, clock |-> EmptyClock,
           ok |-> FALSE, acks |-> 0, local |-> NoValue, status |-> "none",
           values |-> <<>>, rq |-> 0, responders |-> 0]

NoRep == [node |-> 0, key |-> 0, value |-> NoValue, incoming |-> EmptyClock,
          old |-> EmptyClock, oldValue |-> NoValue, new |-> EmptyClock,
          newValue |-> NoValue, accepted |-> FALSE]

\* _save_clocks of node n with the given clocks: what json.load reads back
SavedClocks(vc, vcs) ==
    [st |-> "ok", vector_clock |-> ToWire(vc), value_clocks |-> [k \in MKeys |-> ToWire(vcs[k])]]

\* hash(key) of the node's process: chosen when first computed, the same afterwards
HashIs(n, k, h) ==
    /\ hashOf[n][k] \in {-1, h}
    /\ hashOf' = [hashOf EXCEPT ![n][k] = h]

\* replicate_set: "comparison >= 0 or not existing_clock", where comparison
\* compares the node's vector clock, after update(clock), with existing_clock
AcceptReplicated(vc, existing_clock) ==
    Compare(vc, existing_clock) >= 0 \/ IsEmpty(existing_clock)

\* replicate_set(key, value, clock) at node p
ReplicateSet(p, k, v, c) ==
    LET existing_clock == value_clocks[p][k]
        vc == Update(vector_clock[p], p, c)
        accept == AcceptReplicated(vc, existing_clock)
        vcs == [value_clocks[p] EXCEPT ![k] = c]
    IN  /\ vector_clock' = [vector_clock EXCEPT ![p] = vc]
        /\ IF accept
           THEN /\ kv' = [kv EXCEPT ![p][k] = v]
                /\ value_clocks' = [value_clocks EXCEPT ![p] = vcs]
                /\ clocks_file' = [clocks_file EXCEPT ![p] = SavedClocks(vc, vcs)]
           ELSE UNCHANGED <<kv, value_clocks, clocks_file>>
        /\ lastRep' = [node |-> p, key |-> k, value |-> v, incoming |-> c,
                       old |-> existing_clock, oldValue |-> kv[p][k],
                       new |-> IF accept THEN c ELSE existing_clock,
                       newValue |-> IF accept THEN v ELSE kv[p][k],
                       accepted |-> accept]

\* set(key, value): tick, local write, value_clocks[key] = clock, replica list.
\* Client operations are taken one at a time, and every set writes a value that
\* no earlier set wrote.
MasterlessSet(n, k, v, h) ==
    /\ \A q \in MlNodes : mpc[q] = "idle"
    /\ sets < MaxSets
    /\ v = sets + 1
    /\ HashIs(n, k, h)
    /\ LET clock == Tick(vector_clock[n], n)
       IN  /\ vector_clock' = [vector_clock EXCEPT ![n] = clock]
           /\ kv' = [kv EXCEPT ![n][k] = v]
           /\ value_clocks' = [value_clocks EXCEPT ![n][k] = clock]
           /\ mop' = [mop EXCEPT ![n] =
                        [NoMop EXCEPT !.key = k, !.value = v, !.clock = clock,
                                      !.replicas = ReplicaNodes(n, h), !.success_count = 1]]
    /\ mpc' = [mpc EXCEPT ![n] = "set"]
    /\ sets' = sets + 1
    /\ UNCHANGED <<clocks_file, pending, mret, lastRep, gets>>
    /\ UNCHANGED notMl

\* set: the turn of the loop for an entry of replica_nodes that is the node itself
SetSkipSelf(n) ==
    /\ mpc[n] = "set"
    /\ mop[n].idx < Len(mop[n].replicas)
    /\ mop[n].replicas[mop[n].idx + 1] = n
    /\ mop' = [mop EXCEPT ![n].idx = mop[n].idx + 1]
    /\ UNCHANGED <<hashOf, kv, vector_clock, value_clocks, clocks_file, mpc, pending,
                   mret, lastRep, sets, gets>>
    /\ UNCHANGED notMl

\* set: POST /replicate_set to the next replica, answered in time
SetSendAnswered(n) ==
    /\ mpc[n] = "set"
    /\ mop[n].idx < Len(mop[n].replicas)
    /\ LET p == mop[n].replicas[mop[n].idx + 1]
       IN  /\ p # n
           /\ mpc[p] = "idle"
           /\ ReplicateSet(p, mop[n].key, mop[n].value, ToWire(mop[n].clock))
           /\ mop' = [mop EXCEPT ![n].idx = mop[n].idx + 1,
                                 ![n].success_count = mop[n].success_count + 1,
                                 ![n].answered = mop[n].answered \cup {p}]
    /\ UNCHANGED <<hashOf, mpc, pending, mret, sets, gets>>
    /\ UNCHANGED notMl

\* set: POST /replicate_set to the next replica, timed out or refused; late:
\* the peer still has the request and handles it afterwards
SetSendFailed(n, late) ==
    /\ mpc[n] = "set"
    /\ mop[n].idx < Len(mop[n].replicas)
    /\ LET p == mop[n].replicas[mop[n].idx + 1]
       IN  /\ p # n
           /\ IF late
              THEN /\ Cardinality(pending) < MaxPending
                   /\ pending' = pending \cup
                        {[to |-> p, key |-> mop[n].key, value |-> mop[n].value,
                          clock |-> ToWire(mop[n].clock)]}
              ELSE UNCHANGED pending
    /\ mop' = [mop EXCEPT ![n].idx = mop[n].idx + 1]
    /\ UNCHANGED <<hashOf, kv, vector_clock, value_clocks, clocks_file, mpc,
                   mret, lastRep, sets, gets>>
    /\ UNCHANGED notMl

\* set: the quorum test, _save_clocks() on success, return
SetReturn(n) ==
    /\ mpc[n] = "set"
    /\ mop[n].idx = Len(mop[n].replicas)
    /\ LET success == mop[n].success_count >= QuorumSize
       IN  /\ clocks_file' = IF success
                             THEN [clocks_file EXCEPT ![n] =
                                     SavedClocks(vector_clock[n], value_clocks[n])]
                             ELSE clocks_file
           /\ mret' = [NoMret EXCEPT !.kind = IF mop[n].value = Tombstone THEN "delete"
                                              ELSE "set",
                                     !.node = n, !.key = mop[n].key,
                                     !.value = mop[n].value, !.clock = mop[n].clock,
                                     !.ok = success,
                                     !.acks = 1 + Cardinality(mop[n].answered),
                                     !.local = kv[n][mop[n].key]]
    /\ mpc' = [mpc EXCEPT ![n] = "idle"]
    /\ mop' = [mop EXCEPT ![n] = NoMop]
    /\ UNCHANGED <<hashOf, kv, vector_clock, value_clocks, pending, lastRep, sets, gets>>
    /\ UNCHANGED notMl

\* a replicate_set request whose sender gave up is handled by its receiver
HandleLate(p) ==
    /\ mpc[p] = "idle"
    /\ \E m \in pending :
          /\ m.to = p
          /\ ReplicateSet(p, m.key, m.value, m.clock)
          /\ pending' = pending \ {m}
    /\ UNCHANGED <<hashOf, mpc, mop, mret, sets, gets>>
    /\ UNCHANGED notMl

\* get(key, read_quorum): the local read and the replica list
MasterlessGet(n, k, h) ==
    /\ \A q \in MlNodes : mpc[q] = "idle"
    /\ gets < MaxGets
    /\ HashIs(n, k, h)
    /\ LET local_value == kv[n][k]
           local_clock == value_clocks[n][k]
       IN  mop' = [mop EXCEPT ![n] =
                     [NoMop EXCEPT !.key = k, !.replicas = ReplicaNodes(n, h),
                                   !.values = IF local_value # NoValue
                                              THEN <<[value |-> local_value, clock |-> local_clock]>>
                                              ELSE <<>>,
                                   !.answered = {n}]]
    /\ mpc' = [mpc EXCEPT ![n] = "get"]
    /\ gets' = gets + 1
    /\ UNCHANGED <<kv, vector_clock, value_clocks, clocks_file, pending, mret, lastRep, sets>>
    /\ UNCHANGED notMl

\* get: the turn of the loop for an entry of replica_nodes that is the node itself
GetSkipSelf(n) ==
    /\ mpc[n] = "get"
    /\ mop[n].idx < Len(mop[n].replicas)
    /\ mop[n].replicas[mop[n].idx + 1] = n
    /\ mop' = [mop EXCEPT ![n].idx = mop[n].idx + 1]
    /\ UNCHANGED <<hashOf, kv, vector_clock, value_clocks, clocks_file, mpc, pending,
                   mret, lastRep, sets, gets>>
    /\ UNCHANGED notMl

\* get: GET /replicate_get at the next replica, answered in time: replicate_get
\* of the peer gives (value, clock), or None (404, which urlopen raises)
GetAskAnswered(n) ==
    /\ mpc[n] = "get"
    /\ mop[n].idx < Len(mop[n].replicas)
    /\ LET p == mop[n].replicas[mop[n].idx + 1]
           value == kv[p][mop[n].key]
           clock == ToWire(value_clocks[p][mop[n].key])
       IN  /\ p # n
           /\ mpc[p] = "idle"
           /\ mop' = [mop EXCEPT ![n].idx = mop[n].idx + 1,
                                 ![n].values = IF value # NoValue
                                               THEN Append(mop[n].values,
                                                           [value |-> value, clock |-> clock])
                                               ELSE mop[n].values,
                                 ![n].answered = mop[n].answered \cup {p}]
    /\ UNCHANGED <<hashOf, kv, vector_clock, value_clocks, clocks_file, mpc, pending,
                   mret, lastRep, sets, gets>>
    /\ UNCHANGED notMl

\* get: GET /replicate_get at the next replica, timed out or refused
GetAskFailed(n) ==
    /\ mpc[n] = "get"
    /\ mop[n].idx < Len(mop[n].replicas)
    /\ mop[n].replicas[mop[n].idx + 1] # n
    /\ mop' = [mop EXCEPT ![n].idx = mop[n].idx + 1]
    /\ UNCHANGED <<hashOf, kv, vector_clock, value_clocks, clocks_file, mpc, pending,
                   mret, lastRep, sets, gets>>
    /\ UNCHANGED notMl

\* get: one turn of "for value, clock in values" with the node's vector clock vc
FoldStep(vc, best, r) ==
    IF IsEmpty(best.clock) THEN r
    ELSE IF Compare(vc, r.clock) < 0 THEN r
    ELSE best

RECURSIVE FoldBest(_, _, _)
FoldBest(vc, best, values) ==
    IF values = <<>> THEN best
    ELSE FoldBest(vc, FoldStep(vc, best, Head(values)), Tail(values))

\* get: the quorum test on len(values) with the caller's read_quorum rq, which
\* nothing before this test uses, the choice of the best value, return
GetReturn(n, rq) ==
    /\ mpc[n] = "get"
    /\ mop[n].idx = Len(mop[n].replicas)
    /\ LET best == FoldBest(vector_clock[n], [value |-> NoValue, clock |-> EmptyClock],
                            mop[n].values)
           base == [NoMret EXCEPT !.kind = "get", !.node = n, !.key = mop[n].key,
                                  !.values = mop[n].values, !.rq = rq,
                                  !.responders = Cardinality(mop[n].answered)]
       IN  mret' = IF Len(mop[n].values) < rq
                   THEN [base EXCEPT !.status = "quorum_unmet"]
                   ELSE IF best.value = NoValue
                   THEN [base EXCEPT !.status = "not_found"]
                   ELSE [base EXCEPT !.status = "found", !.value = best.value,
                                     !.clock = best.clock]
    /\ mpc' = [mpc EXCEPT ![n] = "idle"]
    /\ mop' = [mop EXCEPT ![n] = NoMop]
    /\ UNCHANGED <<hashOf, kv, vector_clock, value_clocks, clocks_file, pending,
                   lastRep, sets, gets>>
    /\ UNCHANGED notMl

\* the nodes after construction, with no clocks file on disk
MlInit ==
    /\ hashOf = [n \in MlNodes |-> [k \in MKeys |-> -1]]
    /\ kv = [n \in MlNodes |-> [k \in MKeys |-> NoValue]]
    /\ vector_clock = [n \in MlNodes |-> [EmptyClock EXCEPT ![n] = 0]]
    /\ value_clocks = [n \in MlNodes |-> [k \in MKeys |-> EmptyClock]]
    /\ clocks_file = [n \in MlNodes |->
                        [st |-> "absent", vector_clock |-> EmptyClock,
                         value_clocks |-> [k \in MKeys |-> EmptyClock]]]
    /\ mpc = [n \in MlNodes |-> "idle"]
    /\ mop = [n \in MlNodes |-> NoMop]
    /\ pending = {}
    /\ mret = NoMret
    /\ lastRep = NoRep
    /\ sets = 0
    /\ gets = 0

HashValues == 0..(ClusterNodes - 1)

MlNext ==
    \/ \E n \in MlNodes, k \in MKeys, v \in MValues, h \in HashValues : MasterlessSet(n, k, v, h)
    \/ \E n \in MlNodes : SetSkipSelf(n)
    \/ \E n \in MlNodes : SetSendAnswered(n)
    \/ \E n \in MlNodes, late \in BOOLEAN : SetSendFailed(n, late)
    \/ \E n \in MlNodes : SetReturn(n)
    \/ \E p \in MlNodes : HandleLate(p)
    \/ \E n \in MlNodes, k \in MKeys, h \in HashValues : MasterlessGet(n, k, h)
    \/ \E n \in MlNodes : GetSkipSelf(n)
    \/ \E n \in MlNodes : GetAskAnswered(n)
    \/ \E n \in MlNodes : GetAskFailed(n)
    \/ \E n \in MlNodes, rq \in 1..ReplicationFactor : GetReturn(n, rq)

\* POST /delete (_handle_delete): masterless_node.set(key, "__DELETED__")
MasterlessDelete(n, k, h) ==
    /\ \A q \in MlNodes : mpc[q] = "idle"
    /\ sets < MaxSets
    /\ HashIs(n, k, h)
    /\ LET clock == Tick(vector_clock[n], n)
       IN  /\ vector_clock' = [vector_clock EXCEPT ![n] = clock]
           /\ kv' = [kv EXCEPT ![n][k] = Tombstone]
           /\ value_clocks' = [value_clocks EXCEPT ![n][k] = clock]
           /\ mop' = [mop EXCEPT ![n] =
                        [NoMop EXCEPT !.key = k, !.value = Tombstone, !.clock = clock,
                                      !.replicas = ReplicaNodes(n, h), !.success_count = 1]]
    /\ mpc' = [mpc EXCEPT ![n] = "set"]
    /\ sets' = sets + 1
    /\ UNCHANGED <<clocks_file, pending, mret, lastRep, gets>>
    /\ UNCHANGED notMl

\* client sets, deletes and gets, one at a time; a request to a peer is
\* answered or fails, none is handled after its sender gave up
DeleteNext ==
    \/ \E n \in MlNodes, k \in MKeys, v \in MValues, h \in HashValues : MasterlessSet(n, k, v, h)
    \/ \E n \in MlNodes, k \in MKeys, h \in HashValues : MasterlessDelete(n, k, h)
    \/ \E n \in MlNodes : SetSkipSelf(n)
    \/ \E n \in MlNodes : SetSendAnswered(n)
    \/ \E n \in MlNodes : SetSendFailed(n, FALSE)
    \/ \E n \in MlNodes : SetReturn(n)
    \/ \E n \in MlNodes, k \in MKeys, h \in HashValues : MasterlessGet(n, k, h)
    \/ \E n \in MlNodes : GetSkipSelf(n)
    \/ \E n \in MlNodes : GetAskAnswered(n)
    \/ \E n \in MlNodes : GetAskFailed(n)
    \/ \E n \in MlNodes, rq \in 1..ReplicationFactor : GetReturn(n, rq)

(***************************************************************************)
(* Gossip.  The gossip thread of node n posts the node's vector clock and   *)
(* value_clocks to each peer every two seconds; the peer's handler merges   *)
(* the vector clock.  A peer that is inside a client request does not       *)
(* answer.                                                                 *)
(***************************************************************************)
MaxGossips == 2

\* handle_gossip(node_id, clock, value_clocks) at node p for the message of node n
HandleGossip(p, n) ==
    /\ p # n
    /\ mpc[p] = "idle"
    /\ gossips < MaxGossips
    /\ gossips' = gossips + 1
    /\ vector_clock' = [vector_clock EXCEPT ![p] = Update(vector_clock[p], p, ToWire(vector_clock[n]))]
    /\ UNCHANGED <<hashOf, kv, value_clocks, clocks_file, mpc, mop, pending, mret, lastRep,
                   sets, gets>>
    /\ UNCHANGED <<storeVars, leaderVars, thrVars, cliVars, replVars, pureVars, stopVars, cntVars, conVars, viewVars>>

\* client sets and gossip; a request to a peer is answered or fails
GossipNext ==
    \/ \E n \in MlNodes, k \in MKeys, v \in MValues, h \in HashValues : MasterlessSet(n, k, v, h)
    \/ \E n \in MlNodes : SetSkipSelf(n)
    \/ \E n \in MlNodes : SetSendAnswered(n)
    \/ \E n \in MlNodes : SetSendFailed(n, FALSE)
    \/ \E n \in MlNodes : SetReturn(n)
    \/ \E p \in MlNodes, n \in MlNodes : HandleGossip(p, n)

(***************************************************************************)
(* VectorClock.compare and MasterlessNode._get_replica_nodes as functions   *)
(* of their arguments: a call is drawn at the start and run in one step.    *)
(***************************************************************************)
MaxTick == 1
MaxRF == 5
MaxHash == 5

\* the clocks of the calls: dicts over the int keys 1 and 2 and the str key "1"
CmpClocks ==
    {c \in [CKeys -> {Absent} \cup 0..MaxTick] : c[3] = Absent /\ c[-2] = Absent /\ c[-3] = Absent}

NoCmp == [out |-> 2, rev |-> 2]

\* a.compare(b) and b.compare(a)
CompareCall ==
    /\ cresult = NoCmp
    /\ cresult' = [out |-> Compare(cthis, cother), rev |-> Compare(cother, cthis)]
    /\ UNCHANGED <<cthis, cother, rcall, rresult>>
    /\ UNCHANGED notPure

NoReplicaCall == [self |-> 1, size |-> 1, hash |-> 0, rf |-> 1]

ReplicaCalls ==
    {c \in [self : LNodes, size : 1..MaxCluster, hash : (0 - MaxHash)..MaxHash, rf : 1..MaxRF] :
        c.self <= c.size}

\* [(self.host, self.port)] + self.peers for node self of a cluster of sz nodes
AllNodes(self, sz) ==
    [i \in 1..sz |-> IF i = 1 THEN self ELSE IF i - 1 < self THEN i - 1 ELSE i]

\* a replica list that stops at the end of all_nodes instead of wrapping
GetReplicaNodesNoWrap(all_nodes, hash, rf) ==
    LET key_hash == hash % Len(all_nodes)
    IN  [i \in 1..rf |->
            all_nodes[(IF key_hash + i - 1 < Len(all_nodes) THEN key_hash + i - 1
                       ELSE Len(all_nodes) - 1) + 1]]

\* _get_replica_nodes(key) with hash = hash(key) and rf = self.replication_factor
GetReplicaNodes(all_nodes, hash, rf) ==
    LET key_hash == hash % Len(all_nodes)
    IN  [i \in 1..rf |-> all_nodes[((key_hash + i - 1) % Len(all_nodes)) + 1]]

ReplicaCall ==
    /\ rresult = <<>>
    /\ rresult' = GetReplicaNodes(AllNodes(rcall.self, rcall.size), rcall.hash, rcall.rf)
    /\ UNCHANGED <<cthis, cother, cresult, rcall>>
    /\ UNCHANGED notPure

(***************************************************************************)
(* The counting of MasterlessNode.set in a cluster of any size and with any *)
(* replication factor: the node writes locally and counts itself, posts     *)
(* /replicate_set to every entry of the replica list that is not itself,    *)
(* and counts every answer.  A peer that answers has stored the value.      *)
(***************************************************************************)
NoCount == [self |-> 1, size |-> 1, hash |-> 0, rf |-> 1, replica_nodes |-> <<>>, idx |-> 0,
            success_count |-> 0, stored |-> {}, pc |-> "none", success |-> FALSE]

CountIdle == qset = NoCount

CountInit ==
    \E c \in ReplicaCalls :
        qset = [NoCount EXCEPT !.self = c.self, !.size = c.size, !.hash = c.hash, !.rf = c.rf,
                               !.pc = "new"]

\* set: the local write, replica_nodes and "success_count = 1  # Count ourselves"
CountBegin ==
    /\ qset.pc = "new"
    /\ qset' = [qset EXCEPT !.replica_nodes = GetReplicaNodes(AllNodes(qset.self, qset.size),
                                                              qset.hash, qset.rf),
                            !.success_count = 1,
                            !.stored = {qset.self},
                            !.pc = "loop"]
    /\ UNCHANGED <<storeVars, leaderVars, mlVars, thrVars, cliVars, replVars, pureVars,
                   gosVars, stopVars, conVars, viewVars>>

\* set: the turn of the loop for an entry that is the node itself
CountSkipSelf ==
    /\ qset.pc = "loop"
    /\ qset.idx < Len(qset.replica_nodes)
    /\ qset.replica_nodes[qset.idx + 1] = qset.self
    /\ qset' = [qset EXCEPT !.idx = qset.idx + 1]
    /\ UNCHANGED <<storeVars, leaderVars, mlVars, thrVars, cliVars, replVars, pureVars,
                   gosVars, stopVars, conVars, viewVars>>

\* set: POST /replicate_set to the next entry; answered: the peer stored the
\* value and its answer came in time
CountSend(answered) ==
    /\ qset.pc = "loop"
    /\ qset.idx < Len(qset.replica_nodes)
    /\ LET p == qset.replica_nodes[qset.idx + 1]
       IN  /\ p # qset.self
           /\ qset' = [qset EXCEPT !.idx = qset.idx + 1,
                                   !.success_count = IF answered THEN qset.success_count + 1
                                                     ELSE qset.success_count,
                                   !.stored = IF answered THEN qset.stored \cup {p}
                                              ELSE qset.stored]
    /\ UNCHANGED <<storeVars, leaderVars, mlVars, thrVars, cliVars, replVars, pureVars,
                   gosVars, stopVars, conVars, viewVars>>

\* set: quorum_size = replication_factor // 2 + 1, success = success_count >= quorum_size
CountReturn ==
    /\ qset.pc = "loop"
    /\ qset.idx = Len(qset.replica_nodes)
    /\ qset' = [qset EXCEPT !.pc = "done",
                            !.success = qset.success_count >= (qset.rf \div 2) + 1]
    /\ UNCHANGED <<storeVars, leaderVars, mlVars, thrVars, cliVars, replVars, pureVars,
                   gosVars, stopVars, conVars, viewVars>>

CountNext ==
    \/ CountBegin
    \/ CountSkipSelf
    \/ \E answered \in BOOLEAN : CountSend(answered)
    \/ CountReturn

\* no gossip message was handled
GossipIdle == gossips = 0

\* no node was stopped; the heartbeat thread of a node is not looked at
StopIdle ==
    /\ running = [n \in LNodes |-> FALSE]
    /\ stopped = [n \in LNodes |-> FALSE]
    /\ stops = 0

\* no call of either function
PureIdle ==
    /\ cthis = EmptyClock
    /\ cother = EmptyClock
    /\ cresult = NoCmp
    /\ rcall = NoReplicaCall
    /\ rresult = <<>>

CompareInit ==
    /\ cthis \in CmpClocks
    /\ cother \in CmpClocks
    /\ cresult = NoCmp
    /\ rcall = NoReplicaCall
    /\ rresult = <<>>

CompareNext == CompareCall

ReplicaInit ==
    /\ cthis = EmptyClock
    /\ cother = EmptyClock
    /\ cresult = NoCmp
    /\ rcall \in ReplicaCalls
    /\ rresult = <<>>

\* no node has computed the replica list
ViewIdle == views = [n \in LNodes |-> <<>>]

\* _get_replica_nodes(key) at node n of the cluster of rcall.size nodes, for
\* the key of hash rcall.hash
ReplicaView(n) ==
    /\ n \in 1..rcall.size
    /\ views[n] = <<>>
    /\ views' = [views EXCEPT ![n] = GetReplicaNodes(AllNodes(n, rcall.size), rcall.hash, rcall.rf)]
    /\ UNCHANGED <<storeVars, leaderVars, mlVars, thrVars, cliVars, replVars, pureVars,
                   gosVars, stopVars, cntVars, conVars>>

\* every node of the cluster computes the replica list of the same key
AgreeNext == \E n \in LNodes : ReplicaView(n)

ReplicaNext == ReplicaCall

vars == <<storeVars, leaderVars, mlVars, thrVars, cliVars, replVars, pureVars, gosVars, stopVars, cntVars, conVars, viewVars>>

(***************************************************************************)
(* C1: after a kill and restart, every key whose last operation was       *)
(* acknowledged has the value given by applying the acknowledged           *)
(* operations, in order, to the empty store; only a key written by an      *)
(* operation in flight at a kill may differ.                               *)
(***************************************************************************)
C1_RecoveredEqualsAcked ==
    recovered => \A k \in Keys \ dirty : data[k] = acked[k]

\* the operations of this run whose effect is in the map (the acknowledged
\* ones are among them)
InMapSeq ==
    IF pc \in {"wal", "mem"} /\ cur.items # <<>> THEN opSeq - 1 ELSE opSeq

\* every record of operation s is a parseable line of the log
WalHas(s) ==
    /\ \E i \in 1..Len(wal_file.lines) : wal_file.lines[i].seq = s
    /\ \A i \in 1..Len(wal_file.lines) :
          wal_file.lines[i].seq = s => wal_file.lines[i].op # "garbage"

\* a complete snapshot written after operation s
SnapshotHas(s) == data_file.st = "ok" /\ data_file.seq >= s

(***************************************************************************)
(* C2: in no reachable state of a running store is an operation            *)
(* acknowledged, or its effect present in the map, while its record is in  *)
(* neither the durable WAL nor a durable snapshot written after it.        *)
(***************************************************************************)
C2_AckedIsDurable ==
    pc # "down" => \A s \in 1..InMapSeq : WalHas(s) \/ SnapshotHas(s)

\* the ordering alone: the map holds an operation's effect, and the operation
\* returns, only after each of its records was appended
C2_AppendBeforeEffect ==
    (pc \in {"save", "save_write", "ret"} /\ cur.items # <<>>) =>
        Cardinality({i \in 1..Len(wal_file.lines) : wal_file.lines[i].seq = opSeq})
            = Len(cur.items)

(***************************************************************************)
(* C3: no two distinct running nodes report themselves leader              *)
(* (is_primary) with the same term.                                        *)
(***************************************************************************)
C3_OneLeaderPerTerm ==
    \A a \in Members, b \in Members :
        (a # b /\ up[a] /\ up[b] /\ is_primary[a] /\ is_primary[b]) => term[a] # term[b]

(***************************************************************************)
(* C4: a node casts at most one vote in a term, counting the votes granted *)
(* in handle_vote_request and the vote for itself in start_election, also  *)
(* across a kill and restart: the candidates it has voted for in one term  *)
(* are at most one.                                                        *)
(***************************************************************************)
C4_OneVotePerTerm ==
    \A n \in Members, t \in LTerms : Cardinality(votedIn[n][t]) <= 1

(***************************************************************************)
(* C5: a node that became leader at the end of start_election collected    *)
(* at least floor(N/2)+1 votes, its own included.                          *)
(***************************************************************************)
C5_LeaderHasMajority ==
    \A n \in Members : (up[n] /\ is_primary[n]) => votes[n] >= Majority

(***************************************************************************)
(* C6: when replicate_set(K, V, C) is accepted at a replica whose stored   *)
(* clock for K was C_old, the clock stored for K afterwards is not         *)
(* strictly less than C_old.                                               *)
(***************************************************************************)
C6_ClockNeverBackwards ==
    (lastRep.node # 0 /\ lastRep.accepted) => Compare(lastRep.new, lastRep.old) # -1

(***************************************************************************)
(* C7: replicate_set(K, V, C) is accepted exactly when the replica has no  *)
(* clock for K or C is not strictly older than the stored clock; accepted, *)
(* the value and the clock of K become V and C; rejected, both stay.       *)
(***************************************************************************)
C7_AcceptIffNotOlder ==
    lastRep.node # 0 =>
        /\ lastRep.accepted <=>
              (IsEmpty(lastRep.old) \/ Compare(lastRep.incoming, lastRep.old) # -1)
        /\ lastRep.accepted =>
              (lastRep.newValue = lastRep.value /\ lastRep.new = lastRep.incoming)
        /\ ~lastRep.accepted =>
              (lastRep.newValue = lastRep.oldValue /\ lastRep.new = lastRep.old)

(***************************************************************************)
(* C8: a leaderless set reports success exactly when the coordinator's own *)
(* write plus the replicas that acknowledged number at least               *)
(* floor(RF/2) + 1; a set that reports failure leaves the coordinator's    *)
(* local write in place.  Here RF is the default 3 on three nodes, so the  *)
(* replica list names every node once.                                     *)
(***************************************************************************)
C8_SetQuorum ==
    mret.kind = "set" =>
        /\ mret.ok <=> (mret.acks >= (ReplicationFactor \div 2) + 1)
        /\ ~mret.ok => mret.local = mret.value

\* a set that failed for lack of acknowledgements and kept its local write
C8_FailedSetKeepsWrite ==
    /\ mret.kind = "set"
    /\ ~mret.ok
    /\ mret.acks < (ReplicationFactor \div 2) + 1
    /\ mret.local = mret.value
    /\ kv[mret.node][mret.key] = mret.value

(***************************************************************************)
(* C9: a leaderless get with read quorum R fails for lack of quorum        *)
(* exactly when fewer than R replicas, the coordinator included,           *)
(* responded.                                                              *)
(***************************************************************************)
C9_ReadQuorumCountsResponders ==
    mret.kind = "get" => ((mret.status = "quorum_unmet") <=> (mret.responders < mret.rq))

\* the fold of the specification: the first response, replaced by a later one
\* only when the accumulator's clock is strictly less than the response's
RECURSIVE SpecFold(_, _)
SpecFold(acc, values) ==
    IF values = <<>> THEN acc
    ELSE SpecFold(IF Compare(acc.clock, Head(values).clock) = -1 THEN Head(values) ELSE acc,
                  Tail(values))

(***************************************************************************)
(* C10: a leaderless get that meets its quorum returns the result of       *)
(* folding the responses in order, starting from the first and replacing   *)
(* the accumulator only by a response whose clock is strictly greater.     *)
(***************************************************************************)
C10_GetReturnsFold ==
    (mret.kind = "get" /\ mret.status # "quorum_unmet" /\ mret.values # <<>>) =>
        LET r == SpecFold(Head(mret.values), Tail(mret.values))
        IN  mret.status = "found" /\ mret.value = r.value /\ mret.clock = r.clock

(***************************************************************************)
(* C12.  When a kill interrupts bulk_set(items), the items of that call     *)
(* whose write the restarted store holds form a prefix of items: if the    *)
(* j-th item was recovered, so was every earlier one.                      *)
(***************************************************************************)
C12_RecoveredPrefix ==
    (recovered /\ inflight.kind = "bulk_set") =>
        \A j \in inflight.written : \A i \in 1..j : i \in inflight.written

(***************************************************************************)
(* C13.  At every crash point the snapshot file is absent or a complete    *)
(* mapping, never a file that _load_data reads as the empty map because    *)
(* it was truncated or partly written.                                     *)
(***************************************************************************)
C13_SnapshotAtomic == pc = "down" => data_file.st \in {"absent", "ok"}

(***************************************************************************)
(* C14.  When checkpoint() has returned, the log file is gone and the      *)
(* snapshot file holds exactly the map in memory.                          *)
(***************************************************************************)
C14_CheckpointResult ==
    (pc = "idle" /\ ret.kind = "checkpoint") =>
        /\ wal_file.lines = <<>>
        /\ ~wal_file.open
        /\ data_file.st = "ok"
        /\ data_file.map = data

\* a checkpoint has returned in debug mode on a store that holds a key
C14_CheckpointReturned ==
    /\ pc = "idle"
    /\ ret.kind = "checkpoint"
    /\ debug
    /\ data # EmptyMap

(***************************************************************************)
(* C15.  checkpoint() removes the log only once the snapshot holds the map *)
(* in memory, and a kill inside checkpoint() followed by a restart         *)
(* recovers the map held when checkpoint() started (stated for a           *)
(* checkpoint that started with files from which that map was              *)
(* recoverable).                                                           *)
(***************************************************************************)
C15_CheckpointKillRecovers ==
    /\ pc = "clear" => (data_file.st = "ok" /\ data_file.map = data)
    /\ (recovered /\ inflight.kind = "checkpoint" /\ inflight.sound) =>
           data = inflight.map

(***************************************************************************)
(* C20.  delete(K) of a present key returns true, a get(K) that follows    *)
(* finds nothing, and a key whose last acknowledged operation is a delete  *)
(* is still absent after a kill and a restart.                             *)
(***************************************************************************)
C20_DeleteNotResurrected ==
    pc = "idle" =>
        /\ (ret.kind = "delete" /\ ret.ok) => data[ret.key] = NoValue
        /\ (ret.kind = "get" /\ ret.key \in deleted \ dirty) => ~ret.ok
        /\ \A k \in deleted \ dirty : data[k] = NoValue

(***************************************************************************)
(* C11.  Calls made by several threads are serialisable: what every call   *)
(* returned, and the map once no call is in progress, are those of the     *)
(* calls run one after the other in the order in which they took the       *)
(* lock; so no get sees a bulk_set half applied, and keys written by two   *)
(* bulk_sets all carry the value of the same call.                         *)
(***************************************************************************)
C11_Serialisable ==
    /\ \A t \in Threads : tpc[t] = "idle" => tret[t] = expect[t]
    /\ (\A t \in Threads : tpc[t] = "idle") => data = serial

\* both threads have returned from a bulk_set of two items, and both keys
\* carry the value of thread 2, whose call covered them
C11_TwoBulkSetsReturned ==
    /\ \A t \in Threads : tpc[t] = "idle" /\ tret[t].kind = "bulk_set" /\ tret[t].n = 2
    /\ calls = 2
    /\ \A k \in Keys : data[k] = 2

(***************************************************************************)
(* C19.  A get returns the value of the last returned set of its key (the  *)
(* last set wins), and not_found for a key never set or deleted since.     *)
(***************************************************************************)
C19_GetReturnsLastSet ==
    [][\A t \in Threads, k \in Keys :
          TGet(t, k) => (tret'[t].n = lastWrite[k] /\ tret'[t].ok = (lastWrite[k] # NoValue))]_vars

\* two threads have set the same key, and a get has returned the value of
\* the second set, which the map still holds
C19_SecondSetRead ==
    \E t \in Threads :
        /\ tret[t].kind = "get"
        /\ calls = 3
        /\ tret[t].n # NoValue
        /\ data[tret[t].key] = tret[t].n
        /\ \E u \in Threads : u # tret[t].n /\ tret[u].kind = "set" /\ tret[u].key = tret[t].key
                                /\ tpc[u] = "idle"

(***************************************************************************)
(* C18.  A client get, set, delete or bulk_set that arrives at a node      *)
(* which is not primary is not run on that node's store: the answer is a   *)
(* redirect to the node's primary_node, or no_primary when it has none,    *)
(* and the node's map, log and snapshot stay as they were.                 *)
(***************************************************************************)
C18_NonPrimaryRedirects ==
    (resp.node # 0 /\ ~resp.primary) =>
           /\ resp.status \in {"redirect", "no_primary"}
           /\ resp.status = "redirect" => (resp.known # None /\ resp.target = resp.known)
           /\ resp.status = "no_primary" => resp.known = None
           /\ ~resp.changed

\* a set that arrived at a node which is not primary was answered with a
\* redirect to the node that is primary
C18_SetRedirected ==
    /\ resp.node # 0
    /\ ~resp.primary
    /\ resp.kind = "set"
    /\ resp.status = "redirect"
    /\ resp.target # resp.node
    /\ is_primary[resp.target]

(***************************************************************************)
(* C16.  Three nodes started from nothing, in any order, on a network that *)
(* loses nothing, reach a state where exactly one node is primary and      *)
(* every other node knows it as its primary_node (and so redirects client  *)
(* requests to it).                                                        *)
(***************************************************************************)
OneLeaderKnown ==
    \E a \in Members :
        /\ up[a] /\ listening[a] /\ is_primary[a]
        /\ \A b \in Members \ {a} :
              up[b] /\ listening[b] /\ ~is_primary[b] /\ primary_node[b] = a

C16_EventuallyOneLeader == <>OneLeaderKnown

(***************************************************************************)
(* C17.  When the established leader has been killed and both followers    *)
(* know it as their primary_node, the followers reach a state where one of *)
(* them is primary, their health checks being run again and again.         *)
(***************************************************************************)
\* the leader is down, no election has begun since it was established, and
\* both followers have it as primary_node
LeaderLost ==
    \E a \in Members :
        /\ ~up[a]
        /\ elections = 0
        /\ \A b \in Members \ {a} : up[b] /\ ~is_primary[b] /\ primary_node[b] = a

SurvivorLeads == \E b \in Members : up[b] /\ is_primary[b]

C17_FailoverElectsLeader == LeaderLost ~> SurvivorLeads

(***************************************************************************)
(* C21.  delete(K) of a key absent from the map returns false, appends no  *)
(* record to the log, leaves the map as it was and does not rewrite the    *)
(* snapshot file.                                                          *)
(***************************************************************************)
C21_DeleteAbsentNoEffect ==
    [][\A k \in Keys :
          DeleteAbsent(k) =>
              /\ ret'.kind = "delete" /\ ret'.ok = FALSE /\ ret'.key = k
              /\ wal_file' = wal_file
              /\ data' = data
              /\ data_file' = data_file]_vars

\* delete of an absent key has returned false on a store that holds another
\* key, a log and a snapshot
C21_AbsentDeleteReturned ==
    /\ ret.kind = "delete" /\ ret.ok = FALSE
    /\ data[ret.key] = NoValue
    /\ data # EmptyMap
    /\ wal_file.lines # <<>>
    /\ data_file.st = "ok"

(***************************************************************************)
(* C22.  Leaderless mode: when a client delete(K) has succeeded at a node   *)
(* and the next client operation is a get(K) at the same node, with the     *)
(* default read quorum and every replica answering, the get reports         *)
(* not_found; it does not return the tombstone as the value of K.           *)
(***************************************************************************)
C22_GetAfterDeleteNotFound ==
    [][\A n \in MlNodes :
          ( /\ GetReturn(n, QuorumSize)
            /\ mret.kind = "delete" /\ mret.ok
            /\ mret.node = n /\ mret.key = mop[n].key
            /\ mop[n].answered = MlNodes )
          => /\ mret'.status = "not_found"
             /\ mret'.value # Tombstone]_vars

\* the valid lines of the log that concern key k, by position
ValidLinesOf(k) ==
    {i \in 1..Len(wal_file.lines) :
        wal_file.lines[i].op \in {"set", "delete"} /\ wal_file.lines[i].key = k}

\* the largest member of a non-empty set of positions
LastOf(S) == CHOOSE i \in S : \A j \in S : j <= i

\* what key k holds once the snapshot is loaded and the valid lines are applied
\* in file order: the value of its last valid line, else the snapshot's value
ReplayedValue(k) ==
    IF ValidLinesOf(k) = {}
    THEN (IF data_file.st = "ok" THEN data_file.map[k] ELSE NoValue)
    ELSE wal_file.lines[LastOf(ValidLinesOf(k))].value

(***************************************************************************)
(* C23.  On construction the map is the snapshot's contents (the empty map  *)
(* when the snapshot file is missing or does not parse) with the valid      *)
(* lines of the log applied in file order; a line that does not parse, such *)
(* as the truncated record a kill left, is skipped and changes the effect   *)
(* of no other line.                                                       *)
(***************************************************************************)
C23_RecoveryIsReplay ==
    recovered => \A k \in Keys : data[k] = ReplayedValue(k)

\* a store restarted on a truncated snapshot and a log whose first line does
\* not parse and whose second line is a valid set, which was applied
C23_GarbageLineSkipped ==
    /\ recovered
    /\ data_file.st = "torn"
    /\ Len(wal_file.lines) = 2
    /\ wal_file.lines[1].op = "garbage"
    /\ wal_file.lines[2].op = "set"
    /\ data[wal_file.lines[2].key] = wal_file.lines[2].value

(***************************************************************************)
(* C24.  handle_vote_request(term, candidate) grants the vote exactly when  *)
(* term is greater than the receiver's term, or term equals the receiver's  *)
(* term and the receiver has cast no vote in that term; granting for a      *)
(* greater term, the receiver adopts the term, records the candidate as     *)
(* voted_for and is follower; denying, its term, voted_for and role stay.   *)
(***************************************************************************)
C24_VoteGrantedIff ==
    [][\A n \in LNodes, replied \in BOOLEAN :
          AskPeer(n, TRUE, replied) =>
              LET p == Peers(n)[eidx[n] + 1]
                  t == term[n]
                  d == VoteDecision(t, n, term[p], voted_for[p], is_primary[p])
              IN  /\ d.granted <=> (t > term[p] \/ (t = term[p] /\ votedIn[p][t] = {}))
                  /\ (d.granted /\ t > term[p]) =>
                         (term'[p] = t /\ voted_for'[p] = n /\ ~is_primary'[p])
                  /\ ~d.granted =>
                         /\ term'[p] = term[p]
                         /\ voted_for'[p] = voted_for[p]
                         /\ is_primary'[p] = is_primary[p]]_vars

(***************************************************************************)
(* C25.  A heartbeat whose term is at least the receiver's term makes the   *)
(* receiver take that term, be follower, record the sender as its           *)
(* primary_node and refresh last_heartbeat; a heartbeat of a smaller term   *)
(* leaves the receiver's term, role, primary_node and last_heartbeat as     *)
(* they were.                                                              *)
(***************************************************************************)
C25_HeartbeatHandled ==
    [][\A n \in LNodes :
          HeartbeatSend(n, TRUE) =>
              LET p == Peers(n)[hbidx[n] + 1]
                  t == term[n]
                  d == HeartbeatDecision(t, n, term[p], is_primary[p], primary_node[p])
              IN  IF t >= term[p]
                  THEN /\ term'[p] = t
                       /\ ~is_primary'[p]
                       /\ primary_node'[p] = n
                       /\ d.refreshed
                  ELSE /\ term'[p] = term[p]
                       /\ is_primary'[p] = is_primary[p]
                       /\ primary_node'[p] = primary_node[p]
                       /\ ~d.refreshed]_vars

\* a follower that took its term and its primary_node from the heartbeat of
\* the present leader, having cast no vote in that term
C25_FollowerKnowsLeader ==
    \E p \in Members, n \in Members :
        /\ n # p
        /\ up[p] /\ up[n]
        /\ is_primary[n] /\ ~is_primary[p]
        /\ primary_node[p] = n
        /\ term[p] = term[n]
        /\ votedIn[p][term[p]] = {}

(***************************************************************************)
(* C26.  The term of a running node never decreases: no step of             *)
(* start_election, handle_vote_request or the heartbeat handler, in any     *)
(* interleaving, leaves a node that stays up with a smaller term.           *)
(***************************************************************************)
C26_TermNeverDecreases ==
    [][\A n \in LNodes : (up[n] /\ up'[n]) => term'[n] >= term[n]]_vars

\* term 3 reached in the three ways: by the node's own elections, by a vote
\* granted, and by a heartbeat
C26_TermRaisedThreeWays ==
    \E n \in Members, p \in Members, q \in Members :
        /\ n # p /\ n # q /\ p # q
        /\ up[n] /\ up[p] /\ up[q]
        /\ term[n] = 3 /\ votedIn[n][3] = {n} /\ is_primary[n]
        /\ term[p] = 3 /\ votedIn[p][3] = {n}
        /\ term[q] = 3 /\ votedIn[q][3] = {} /\ primary_node[q] = n

\* s is an initial part of t
IsPrefix(s, t) == Len(s) <= Len(t) /\ \A i \in 1..Len(s) : s[i] = t[i]

(***************************************************************************)
(* C27.  Leader mode, one leader that stays, stores equal at the start, no  *)
(* request lost, client writes one at a time: every follower applies the    *)
(* leader's operations, each once and in the leader's order, and whenever   *)
(* no write is in progress (each set, delete and bulk_set acknowledged)     *)
(* every follower's map equals the leader's.                               *)
(***************************************************************************)
C27_FollowersApplyLeaderOps ==
    \A n \in Members : is_primary[n] =>
        \A p \in Members \ {n} :
            /\ IsPrefix(applied[p], applied[n])
            /\ Len(applied[n]) - Len(applied[p]) <= 1
            /\ wreq.kind = "none" =>
                  /\ applied[p] = applied[n]
                  /\ nstore[p].map = nstore[n].map

\* a set and then a delete of the same key were acknowledged, and both
\* followers applied the two
C27_SetThenDeleteReplicated ==
    /\ wreq.kind = "none"
    /\ resp.status = "ok"
    /\ \E n \in Members :
          /\ is_primary[n]
          /\ Len(applied[n]) = 2
          /\ applied[n][1].kind = "set" /\ applied[n][2].kind = "delete"
          /\ \A p \in Members : applied[p] = applied[n] /\ nstore[p].map = EmptyMap

(***************************************************************************)
(* C28.  When a leaderless set(K, V) that was given clock C returns, with   *)
(* or without its quorum, the clocks file on disk holds C as the clock of   *)
(* K and a vector clock whose entry for the node is at least C's (the file  *)
(* is what a restart reloads).                                             *)
(***************************************************************************)
C28_ClocksDurableAtReturn ==
    [][\A n \in MlNodes :
          SetReturn(n) =>
              /\ clocks_file'[n].st = "ok"
              /\ clocks_file'[n].value_clocks[mop[n].key] = ToWire(mop[n].clock)
              /\ At(clocks_file'[n].vector_clock, -n) >= At(ToWire(mop[n].clock), -n)]_vars

\* every entry of a is at most b's and one is smaller, entries missing read as 0
Dominated(a, b) ==
    /\ \A k \in CKeys : At(a, k) <= At(b, k)
    /\ \E k \in CKeys : At(a, k) < At(b, k)

\* one entry of a is smaller than b's and another is larger
Mixed(a, b) ==
    /\ \E k \in CKeys : At(a, k) < At(b, k)
    /\ \E k \in CKeys : At(a, k) > At(b, k)

(***************************************************************************)
(* C29.  compare(other), entries missing read as 0, returns "less" (-1)     *)
(* exactly when every entry of self is at most other's and one is smaller,  *)
(* "greater" (1) exactly in the mirrored case, and "concurrent" (0) exactly *)
(* when one entry is smaller and another larger; equal clocks give an       *)
(* outcome of their own; and a.compare(b) is "less" exactly when            *)
(* b.compare(a) is "greater".                                              *)
(***************************************************************************)
C29_CompareOutcome ==
    cresult # NoCmp =>
        /\ (cresult.out = -1) <=> Dominated(cthis, cother)
        /\ (cresult.out = 1) <=> Dominated(cother, cthis)
        /\ (cresult.out = 0) <=> Mixed(cthis, cother)
        /\ (cresult.out = -1) <=> (cresult.rev = 1)

(***************************************************************************)
(* C30.  The replica list a node computes for a key has exactly RF entries, *)
(* the nodes at positions h, h+1, ..., h+RF-1 (mod N) of [self] ++ peers,   *)
(* with h = hash(key) mod N and N the number of nodes; when RF <= N they    *)
(* are RF different nodes.                                                 *)
(***************************************************************************)
C30_ReplicaSet ==
    rresult # <<>> =>
        LET all == AllNodes(rcall.self, rcall.size)
            N == rcall.size
            h == rcall.hash % N
        IN  /\ Len(rresult) = rcall.rf
            /\ \A i \in 1..rcall.rf :
                  \E pos \in 0..(N - 1) :
                      /\ pos = (h + (i - 1)) % N
                      /\ rresult[i] = all[pos + 1]
            /\ rcall.rf <= N =>
                  Cardinality({rresult[i] : i \in 1..rcall.rf}) = rcall.rf

\* node 2 of four nodes, three replicas, a hash that falls on the last
\* position: the list wraps around to the node itself and its first peer
C30_WrappedReplicas ==
    /\ rcall.self = 2 /\ rcall.size = 4 /\ rcall.rf = 3
    /\ rcall.hash % 4 = 3
    /\ rresult = <<4, 2, 1>>

\* the count a clock holds for node m, under its int key or its str key
NodeEntry(c, m) == IF At(c, m) >= At(c, 0 - m) THEN At(c, m) ELSE At(c, 0 - m)

(***************************************************************************)
(* C31.  Handling a gossip message changes the receiver's vector clock      *)
(* only: the receiver's store and its value_clocks (and the clocks file)    *)
(* stay, and the receiver's vector clock afterwards holds, for every node,  *)
(* a count at least the count in the sender's vector clock.                 *)
(***************************************************************************)
C31_GossipMergesClock ==
    [][\A p \in MlNodes, n \in MlNodes :
          HandleGossip(p, n) =>
              /\ kv' = kv /\ value_clocks' = value_clocks /\ clocks_file' = clocks_file
              /\ \A m \in MlNodes :
                    NodeEntry(vector_clock'[p], m) >= NodeEntry(vector_clock[n], m)]_vars

(***************************************************************************)
(* C32.  A node that was stopped begins nothing new: it starts no election *)
(* (no vote request goes out for a new term) and no heartbeat round; only a *)
(* round or an election that was under way at the stop may finish.          *)
(***************************************************************************)
C32_StoppedNodeQuiet ==
    [][\A n \in LNodes :
          stopped[n] =>
              /\ epc[n] = "idle" => epc'[n] = "idle"
              /\ hbidx[n] = -1 => hbidx'[n] = -1]_vars

(***************************************************************************)
(* C33.  Leaderless mode, three nodes, replication factor 3, client         *)
(* operations one at a time: when the last operation was a set(K, V) that   *)
(* returned success, no request of an earlier set is still under way, and   *)
(* a get(K) with the default read quorum at any node meets its quorum, the  *)
(* get returns V.                                                           *)
(***************************************************************************)
C33_GetReturnsLastSet ==
    [][\A n \in MlNodes :
          ( /\ GetReturn(n, QuorumSize)
            /\ mret.kind = "set" /\ mret.ok
            /\ mret.key = mop[n].key
            /\ pending = {}
            /\ Len(mop[n].values) >= QuorumSize )
          => /\ mret'.status = "found"
             /\ mret'.value = mret.value]_vars

(***************************************************************************)
(* C34.  A node that makes itself leader at the end of start_election is   *)
(* still in the term of that election and its vote is still its own: its    *)
(* voted_for is itself, and its term is a term in which it voted for        *)
(* itself.                                                                  *)
(***************************************************************************)
C34_LeaderStillInCampaignTerm ==
    [][\A n \in LNodes :
          (ElectionEnd(n) /\ is_primary'[n]) =>
              /\ voted_for[n] = n
              /\ n \in votedIn[n][term[n]]]_vars

(***************************************************************************)
(* C35.  Leader mode: a /replicate request changes the store of the node    *)
(* that receives it only if the sender is at the receiver's term and the    *)
(* receiver is not itself leader; an operation of a deposed leader (of a    *)
(* lower term) leaves the store as it was.                                  *)
(***************************************************************************)
C35_ReplicateFromCurrentLeader ==
    [][\A n \in LNodes :
          ReplicateSend(n) =>
              LET p == Peers(n)[wreq.idx + 1]
              IN  nstore'[p] # nstore[p] =>
                      /\ term[n] = term[p]
                      /\ ~is_primary[p]]_vars

(***************************************************************************)
(* C36.  When a leaderless set returns success, the value is stored on at   *)
(* least floor(RF / 2) + 1 distinct nodes of the key's replica set, for     *)
(* every cluster size and replication factor.                               *)
(***************************************************************************)
C36_SuccessMeansQuorumOfReplicas ==
    (qset.pc = "done" /\ qset.success) =>
        LET replica_set == {qset.replica_nodes[i] : i \in 1..Len(qset.replica_nodes)}
        IN  Cardinality(qset.stored \cap replica_set) >= (qset.rf \div 2) + 1

(***************************************************************************)
(* C37.  Leader mode, one leader that stays, no request lost, several       *)
(* client writes to the same key sent at the same time: every follower      *)
(* receives the replicate messages in the order in which the leader applied *)
(* the writes locally, and once every write is acknowledged every           *)
(* follower's value of each key equals the leader's.                        *)
(***************************************************************************)
C37_FollowersSeeLeaderOrder ==
    \A n \in Members : is_primary[n] =>
        \A p \in Members \ {n} :
            /\ IsPrefix(applied[p], applied[n])
            /\ ((\A i \in 1..Len(backlog) : backlog[i].taken) /\ wreq.kind = "none") =>
                  \A k \in ReqKeys : nstore[p].map[k] = nstore[n].map[k]

\* a set and then a delete of the same key were sent; the delete was served
\* first, while the set waited; both are acknowledged and every node holds
\* the value of the set
C37_LaterWriteServedFirst ==
    /\ Len(backlog) = 2
    /\ backlog[1].kind = "set" /\ backlog[2].kind = "delete"
    /\ backlog[1].items[1][1] = backlog[2].items[1][1]
    /\ backlog[1].taken /\ backlog[2].taken
    /\ wreq.kind = "none"
    /\ \E n \in Members :
          /\ is_primary[n]
          /\ applied[n] = <<[kind |-> "delete", items |-> backlog[2].items],
                            [kind |-> "set", items |-> backlog[1].items]>>
          /\ \A p \in Members :
                /\ applied[p] = applied[n]
                /\ nstore[p].map[backlog[1].items[1][1]] = backlog[1].items[1][2]

(***************************************************************************)
(* C38.  In a cluster of N nodes with replication factor RF <= N, any two   *)
(* nodes compute the same replica set for the same key.                     *)
(***************************************************************************)
C38_SameReplicaSet ==
    rcall.rf <= rcall.size =>
        \A a \in 1..rcall.size, b \in 1..rcall.size :
            (views[a] # <<>> /\ views[b] # <<>>) =>
                {views[a][i] : i \in 1..Len(views[a])} = {views[b][i] : i \in 1..Len(views[b])}

(***************************************************************************)
(* C39.  Leader mode: a node that is not leader never names itself as the   *)
(* primary to which it redirects clients: whenever is_primary is false,     *)
(* primary_node is unset or another node.                                   *)
(***************************************************************************)
C39_NoRedirectToSelf ==
    \A n \in Members : (up[n] /\ ~is_primary[n]) => primary_node[n] # n

\* the single-node store
Init ==
    /\ StoreInit /\ ThrInit /\ CliInit /\ ReplInit /\ PureIdle /\ GossipIdle /\ StopIdle /\ CountIdle /\ BacklogIdle /\ ViewIdle
    /\ LeaderInit(ClusterNodes) /\ MlInit

Next == StoreNext

Spec == Init /\ [][Next]_vars

StoreIdle ==
    /\ StoreInit
    /\ ThrInit
    /\ CliInit
    /\ ReplInit
    /\ PureIdle
    /\ GossipIdle /\ StopIdle /\ CountIdle /\ BacklogIdle /\ ViewIdle
    /\ debug = FALSE

\* the store called from two threads
ConcSpecInit == StoreIdle /\ LeaderInit(ClusterNodes) /\ MlInit

ConcSpec == ConcSpecInit /\ [][ThrNext]_vars

\* the leader-mode cluster of three nodes and its clients
ClientSpecInit == StoreIdle /\ LeaderInit(ClusterNodes) /\ MlInit

ClientSpec == ClientSpecInit /\ [][ClientNext]_vars

\* what the threads of a running node do sooner or later; starting a node is
\* what the operator does (run_cluster.py starts all three).  A direct call
\* of start_election and a kill are not owed.
FreshFair ==
    \A n \in LNodes :
        /\ WF_vars(Start(n))
        /\ WF_vars(AskPeerReliable(n))
        /\ WF_vars(ElectionEnd(n))
        /\ WF_vars(HeartbeatRound(n))
        /\ WF_vars(HeartbeatSendReliable(n))
        /\ WF_vars(CheckHealth(n))

\* the same for the cluster with its leader, where no node is started
FailoverFair ==
    \A n \in LNodes :
        /\ WF_vars(CheckHealth(n))
        /\ WF_vars(AskPeerReliable(n))
        /\ WF_vars(ElectionEnd(n))
        /\ WF_vars(HeartbeatRound(n))
        /\ WF_vars(HeartbeatSendReliable(n))

\* the leader-mode cluster from its first start
FreshSpecInit == StoreIdle /\ FreshInit /\ MlInit

FreshSpec == FreshSpecInit /\ [][FreshNext]_vars /\ FreshFair

\* the leader-mode cluster with an established leader
FailoverSpecInit == StoreIdle /\ FailoverInit /\ MlInit

FailoverSpec == FailoverSpecInit /\ [][FailoverNext]_vars /\ FailoverFair

\* the leader-mode cluster of three nodes
LeaderSpecInit == StoreIdle /\ LeaderInit(ClusterNodes) /\ MlInit

LeaderSpec == LeaderSpecInit /\ [][LeaderNext]_vars

\* a larger leader-mode cluster, whose processes stay up
WideSpecInit == StoreIdle /\ LeaderInit(MaxCluster) /\ MlInit

WideSpec == WideSpecInit /\ [][ClusterNext]_vars

\* the leaderless cluster of three nodes
MasterlessSpecInit == StoreIdle /\ LeaderInit(ClusterNodes) /\ MlInit

MasterlessSpec == MasterlessSpecInit /\ [][MlNext]_vars

\* client writes at an established leader
ReplSpecInit == StoreIdle /\ FailoverInit /\ MlInit

ReplSpec == ReplSpecInit /\ [][ReplNext]_vars

\* calls of VectorClock.compare
CompareSpecInit ==
    /\ StoreInit /\ ThrInit /\ CliInit /\ ReplInit /\ debug = FALSE /\ GossipIdle /\ StopIdle /\ CountIdle /\ BacklogIdle /\ ViewIdle
    /\ LeaderInit(ClusterNodes) /\ MlInit
    /\ CompareInit

CompareSpec == CompareSpecInit /\ [][CompareNext]_vars

\* calls of MasterlessNode._get_replica_nodes
ReplicaSpecInit ==
    /\ StoreInit /\ ThrInit /\ CliInit /\ ReplInit /\ debug = FALSE /\ GossipIdle /\ StopIdle /\ CountIdle /\ BacklogIdle /\ ViewIdle
    /\ LeaderInit(ClusterNodes) /\ MlInit
    /\ ReplicaInit

ReplicaSpec == ReplicaSpecInit /\ [][ReplicaNext]_vars

\* every node computes the replica list of a key
AgreeSpecInit == ReplicaSpecInit

AgreeSpec == AgreeSpecInit /\ [][AgreeNext]_vars

\* leader mode with clients that write at the same time
QueueSpecInit == StoreIdle /\ FailoverInit /\ MlInit

QueueSpec == QueueSpecInit /\ [][QueueNext]_vars

\* the counting of a leaderless set
CountSpecInit ==
    /\ StoreInit /\ ThrInit /\ CliInit /\ ReplInit /\ PureIdle /\ GossipIdle /\ StopIdle
    /\ BacklogIdle /\ ViewIdle /\ debug = FALSE
    /\ LeaderInit(ClusterNodes) /\ MlInit
    /\ CountInit

CountSpec == CountSpecInit /\ [][CountNext]_vars

\* leader mode: client writes, elections and lost requests
DeposedSpecInit == StoreIdle /\ FailoverInit /\ MlInit

DeposedSpec == DeposedSpecInit /\ [][DeposedNext]_vars

\* leader mode with nodes that are stopped
StopSpecInit ==
    /\ StoreInit /\ ThrInit /\ CliInit /\ ReplInit /\ PureIdle /\ GossipIdle /\ CountIdle /\ BacklogIdle /\ ViewIdle /\ debug = FALSE
    /\ StopInit /\ MlInit

StopSpec == StopSpecInit /\ [][StopNext]_vars

\* leaderless mode with gossip
GossipSpecInit == StoreIdle /\ LeaderInit(ClusterNodes) /\ MlInit

GossipSpec == GossipSpecInit /\ [][GossipNext]_vars

\* leaderless mode with client deletes
DeleteSpecInit == StoreIdle /\ LeaderInit(ClusterNodes) /\ MlInit

DeleteSpec == DeleteSpecInit /\ [][DeleteNext]_vars

====
